---- MODULE Spec2Model ----
(***************************************************************************)
(* Verification model of the Airflow chat front ends of airflow_mcp:       *)
(*   - Chatbot of src/Analytics.jsx (pattern-matching sendMessage),        *)
(*   - Chatbot of src/Chatbot2.jsx, lines 9-225 (rerun / list / default).  *)
(* Text is modelled character by character: a string is a sequence of      *)
(* one-character strings, so that the regular expressions of the source    *)
(* are evaluated on the utterance as JavaScript evaluates them.            *)
(***************************************************************************)
EXTENDS Integers, Sequences, FiniteSets, TLC

(***************************************************************************)
(* Bounds of the model.                                                    *)
(***************************************************************************)
\* number of sendMessage runs that get past the blank-input test in a behaviour
MaxTurns == 2
\* largest number of entries of an entity sequence in a backend payload
MaxDags == 2

(***************************************************************************)
(* Characters and strings.                                                 *)
(***************************************************************************)
UpperCase == <<"A","B","C","D","E","F","G","H","I","J","K","L","M",
               "N","O","P","Q","R","S","T","U","V","W","X","Y","Z">>
LowerCase == <<"a","b","c","d","e","f","g","h","i","j","k","l","m",
               "n","o","p","q","r","s","t","u","v","w","x","y","z">>
Digits == {"0","1","2","3","4","5","6","7","8","9"}

\* the /i flag and String.prototype.toLowerCase, one character
Lower(c) ==
  IF \E i \in 1..26 : UpperCase[i] = c
  THEN LowerCase[CHOOSE i \in 1..26 : UpperCase[i] = c]
  ELSE c

toLowerCase(s) == [i \in 1..Len(s) |-> Lower(s[i])]

IsLetter(c) == \E i \in 1..26 : LowerCase[i] = Lower(c)
\* \w
IsWordChar(c) == IsLetter(c) \/ c \in Digits \/ c = "_"
\* [a-zA-Z0-9_\-:.]
IsIdChar(c) == IsWordChar(c) \/ c \in {"-", ":", "."}
\* \s
IsSpace(c) == c \in {" ", "\n", "\t"}
\* ['""]: the two quote characters are written as named atoms
Apostrophe == "<apostrophe>"
DoubleQuote == "<double quote>"
IsQuote(c) == c \in {Apostrophe, DoubleQuote}

SetMin(S) == CHOOSE x \in S : \A y \in S : x <= y
SetMax(S) == CHOOSE x \in S : \A y \in S : y <= x

\* String.prototype.trim
trim(s) ==
  LET keep == {i \in 1..Len(s) : ~IsSpace(s[i])}
  IN IF keep = {} THEN <<>> ELSE SubSeq(s, SetMin(keep), SetMax(keep))

\* the literal lit (lower case) stands at index p of q, letter case ignored
LitAt(q, p, lit) ==
  /\ p >= 1
  /\ p + Len(lit) - 1 <= Len(q)
  /\ \A k \in 1..Len(lit) : Lower(q[p + k - 1]) = lit[k]

\* \bLIT\b at index p: no word character on either side of the literal
WordAt(q, p, lit) ==
  /\ LitAt(q, p, lit)
  /\ (p = 1 \/ ~IsWordChar(q[p - 1]))
  /\ (p + Len(lit) > Len(q) \/ ~IsWordChar(q[p + Len(lit)]))

\* first index >= p that holds no character of the class, Len(q)+1 if none
SkipSpaces(q, p) ==
  SetMin({i \in p..(Len(q) + 1) : i = Len(q) + 1 \/ ~IsSpace(q[i])})
SkipId(q, p) ==
  SetMin({i \in p..(Len(q) + 1) : i = Len(q) + 1 \/ ~IsIdChar(q[i])})

\* the tail  \s+['""]?([a-zA-Z0-9_\-:.]+)['""]?  of the rules, tried at index p:
\* the capture group, or <<>> when the tail does not match there
CaptureAt(q, p) ==
  IF p > Len(q) THEN <<>>
  ELSE LET s == SkipSpaces(q, p)
           b == IF s <= Len(q) /\ IsQuote(q[s]) THEN s + 1 ELSE s
           e == IF b <= Len(q) THEN SkipId(q, b) ELSE b
       IN IF s > p /\ e > b THEN SubSeq(q, b, e - 1) ELSE <<>>

\* some literal of lits stands at p and the capture tail matches after it
TailAt(q, p, lits) ==
  \E lit \in lits : LitAt(q, p, lit) /\ CaptureAt(q, p + Len(lit)) # <<>>
TailCapture(q, p, lits) ==
  LET lit == CHOOSE l \in lits : LitAt(q, p, l) /\ CaptureAt(q, p + Len(l)) # <<>>
  IN CaptureAt(q, p + Len(lit))

\* indexes right after a keyword of kws that starts at p
KwEnds(q, p, kws) == {p + Len(kw) : kw \in {k \in kws : LitAt(q, p, k)}}

(***************************************************************************)
(* Literals of the patterns.                                               *)
(***************************************************************************)
s_list == <<"l","i","s","t">>
s_show == <<"s","h","o","w">>
s_get == <<"g","e","t">>
s_all == <<"a","l","l">>
s_dag == <<"d","a","g">>
s_dags == <<"d","a","g","s">>
s_search == <<"s","e","a","r","c","h">>
s_for == <<"f","o","r">>
s_of == <<"o","f">>
s_on == <<"o","n">>
s_detail == <<"d","e","t","a","i","l">>
s_details == <<"d","e","t","a","i","l","s">>
s_info == <<"i","n","f","o">>
s_status == <<"s","t","a","t","u","s">>
s_pause == <<"p","a","u","s","e">>
s_unpause == <<"u","n","p","a","u","s","e">>
s_resume == <<"r","e","s","u","m","e">>
s_activate == <<"a","c","t","i","v","a","t","e">>
s_trigger == <<"t","r","i","g","g","e","r">>
s_run == <<"r","u","n">>
s_start == <<"s","t","a","r","t">>
s_latest == <<"l","a","t","e","s","t">>
s_last == <<"l","a","s","t">>
s_recent == <<"r","e","c","e","n","t">>
s_rerun == <<"r","e","r","u","n">>
SP == <<" ">>

(***************************************************************************)
(* The patterns of sendMessage, src/Analytics.jsx.  A match result is the  *)
(* capture group; <<>> stands for null (a capture is never empty).         *)
(***************************************************************************)
\* /\b(list|show|get)\b.*\b(all|dags?)\b/i.test(query)
listTest(q) ==
  \E p \in 1..Len(q) : \E v \in {s_list, s_show, s_get} :
    /\ WordAt(q, p, v)
    /\ \E r \in (p + Len(v))..Len(q) : \E o \in {s_all, s_dag, s_dags} : WordAt(q, r, o)

\* query.match(/search.*(?:for|dags?)\s+['""]?([a-zA-Z0-9_\-:.]+)['""]?/i):
\* leftmost "search", then the greedy .* puts (for|dags?) as far right as it matches
searchMatch(q) ==
  LET lits == {s_for, s_dag, s_dags}
      P == {p \in 1..Len(q) :
              LitAt(q, p, s_search) /\ \E r \in (p + 6)..Len(q) : TailAt(q, r, lits)}
  IN IF P = {} THEN <<>>
     ELSE LET p == SetMin(P)
              r == SetMax({x \in (p + 6)..Len(q) : TailAt(q, x, lits)})
          IN TailCapture(q, r, lits)

\* /\bsearch\b/i.test(query)
searchTest(q) == \E p \in 1..Len(q) : WordAt(q, p, s_search)

\* query.split(/search/i)[1]?.trim(): the text between the first and the second
\* occurrence of "search", trimmed; <<>> also stands for undefined
searchSplit(q) ==
  LET P == {p \in 1..Len(q) : LitAt(q, p, s_search)}
  IN IF P = {} THEN <<>>
     ELSE LET p1 == SetMin(P)
              P2 == {p \in P : p >= p1 + 6}
              e == IF P2 = {} THEN Len(q) ELSE SetMin(P2) - 1
          IN trim(SubSeq(q, p1 + 6, e))

\* searchMatch?.[1] || query.split(/search/i)[1]?.trim()
searchTerm(q) == IF searchMatch(q) # <<>> THEN searchMatch(q) ELSE searchSplit(q)

\* a keyword of kws, then the lazy .*? , then a literal of lits and the capture tail:
\* leftmost keyword that can be completed, then the nearest completion
LazyMatch(q, kws, lits) ==
  LET R(p) == {r \in 1..Len(q) : (\E e \in KwEnds(q, p, kws) : r >= e) /\ TailAt(q, r, lits)}
      P == {p \in 1..Len(q) : R(p) # {}}
  IN IF P = {} THEN <<>> ELSE TailCapture(q, SetMin(R(SetMin(P))), lits)

\* query.match(/(?:details?|info|status).*?(?:for|of|on)\s+['""]?([a-zA-Z0-9_\-:.]+)['""]?/i)
detailsMatch(q) == LazyMatch(q, {s_detail, s_details, s_info, s_status}, {s_for, s_of, s_on})

\* a keyword of kws directly followed by the capture tail, leftmost
KeywordMatch(q, kws) ==
  LET P == {p \in 1..Len(q) : TailAt(q, p, kws)}
  IN IF P = {} THEN <<>> ELSE TailCapture(q, SetMin(P), kws)

\* query.match(/pause\s+['""]?([a-zA-Z0-9_\-:.]+)['""]?/i)
pauseMatch(q) == KeywordMatch(q, {s_pause})

\* query.match(/(?:unpause|resume|activate)\s+['""]?([a-zA-Z0-9_\-:.]+)['""]?/i)
unpauseMatch(q) == KeywordMatch(q, {s_unpause, s_resume, s_activate})

\* query.match(/(?:trigger|run|start)\s+['""]?([a-zA-Z0-9_\-:.]+)['""]?/i)
triggerMatch(q) == KeywordMatch(q, {s_trigger, s_run, s_start})

\* query.match(/(?:latest|last|recent)\s+run.*?(?:for|of)\s+['""]?([a-zA-Z0-9_\-:.]+)['""]?/i)
runMatch(q) ==
  LET kws == {s_latest, s_last, s_recent}
      lits == {s_for, s_of}
      \* indexes right after "run" for a keyword at p followed by \s+run
      RunEnds(p) == {SkipSpaces(q, e) + 3 : e \in {x \in KwEnds(q, p, kws) :
                        x <= Len(q) /\ SkipSpaces(q, x) > x /\ LitAt(q, SkipSpaces(q, x), s_run)}}
      R(p) == {r \in 1..Len(q) : (\E e \in RunEnds(p) : r >= e) /\ TailAt(q, r, lits)}
      P == {p \in 1..Len(q) : R(p) # {}}
  IN IF P = {} THEN <<>> ELSE TailCapture(q, SetMin(R(SetMin(P))), lits)

(***************************************************************************)
(* JSON values, tagged by type.  A string is a sequence of characters, an  *)
(* array a sequence of values, an object a function from keys to values.   *)
(***************************************************************************)
JUndef == [t |-> "undefined"]
JNull == [t |-> "null"]
JBool(b) == [t |-> "bool", b |-> b]
JNum(n) == [t |-> "num", n |-> n]
JStr(s) == [t |-> "str", s |-> s]
JArr(a) == [t |-> "arr", a |-> a]
JObj(o) == [t |-> "obj", o |-> o]
EmptyObj == JObj(<<>>)

\* ToBoolean
Truthy(v) ==
  CASE v.t \in {"undefined", "null"} -> FALSE
    [] v.t = "bool" -> v.b
    [] v.t = "num" -> v.n # 0
    [] v.t = "str" -> v.s # <<>>
    [] OTHER -> TRUE

\* v.k and v?.k for a v that is not null or undefined, and v?.k for one that is
Get(v, k) == IF v.t = "obj" /\ k \in DOMAIN v.o THEN v.o[k] ELSE JUndef
\* v[i] for an index i, counted from 0
At(v, i) == IF v.t = "arr" /\ i + 1 <= Len(v.a) THEN v.a[i + 1] ELSE JUndef
\* v.k throws a TypeError
Nullish(v) == v.t \in {"undefined", "null"}
\* Array.isArray
IsArray(v) == v.t = "arr"
\* v.length > 0
LengthPositive(v) ==
  CASE v.t = "arr" -> Len(v.a) > 0
    [] v.t = "str" -> Len(v.s) > 0
    [] OTHER -> Truthy(Get(v, "length")) /\ Get(v, "length").t = "num" /\ Get(v, "length").n > 0
\* a || b
Or(a, b) == IF Truthy(a) THEN a ELSE b

(***************************************************************************)
(* Reply texts.  A template literal is the tuple of its source text and    *)
(* the values interpolated into it, in order; quote characters and emoji   *)
(* of the source text are left out or written <...>.                       *)
(***************************************************************************)
Thrown(what) == [t |-> "throw", message |-> what]
IsThrown(x) == x.t = "throw"
Text(parts) == [t |-> "text", parts |-> parts]

(***************************************************************************)
(* Chatbot of src/Analytics.jsx: helpers.                                  *)
(***************************************************************************)
\* what fetch and res.json() give: the server is unreachable, or it answers with
\* a status and a body that parses to a JSON value or does not parse
Unreachable == [t |-> "unreachable"]
Response(status, body) == [t |-> "response", status |-> status, body |-> body]
Unparseable == [t |-> "unparseable"]
ResOk(status) == status >= 200 /\ status <= 299

Result(ok, status, body) == [t |-> "result", ok |-> ok, status |-> status, body |-> body]
\* the result slot of a call whose fetch has not settled
Pending == [t |-> "pending", ok |-> FALSE, status |-> 0, body |-> JUndef]

\* callMCPServer, from the outcome of its fetch to what it returns
callMCPServer(net) ==
  IF net.t = "unreachable" \/ net.body = Unparseable
  THEN Result(FALSE, 0, JNull)
  ELSE Result(ResOk(net.status), net.status, net.body)

extractDags(mcpBody) ==
  IF ~Truthy(mcpBody) THEN JArr(<<>>)
  ELSE IF Truthy(Get(Get(mcpBody, "output"), "dags")) THEN Get(Get(mcpBody, "output"), "dags")
  ELSE IF IsArray(Get(mcpBody, "dags")) THEN Get(mcpBody, "dags")
  ELSE IF IsArray(Get(mcpBody, "results")) THEN Get(mcpBody, "results")
  ELSE IF IsArray(mcpBody) THEN mcpBody
  ELSE JArr(<<>>)

\* the text returned, or Thrown when body is null or undefined
parseMCPResponse(body) ==
  IF Nullish(body) THEN Thrown("Cannot read properties of null (reading success)")
  ELSE IF Truthy(Get(body, "success")) /\ Truthy(Get(body, "message"))
    THEN Text(<<"${body.message}", Get(body, "message")>>)
  ELSE IF Truthy(Get(body, "error"))
    THEN Text(<<"Error: ${body.error}", Get(body, "error")>>)
  ELSE IF Truthy(Get(body, "output")) /\ Get(body, "output").t = "str"
    THEN Text(<<"${body.output}", Get(body, "output")>>)
  ELSE IF Truthy(Get(body, "output")) /\ Truthy(Get(Get(body, "output"), "message"))
    THEN Text(<<"${body.output.message}", Get(Get(body, "output"), "message")>>)
  ELSE IF Truthy(Get(body, "output"))
          /\ (Truthy(Get(Get(body, "output"), "state")) \/ Truthy(Get(Get(body, "output"), "status")))
    THEN Text(<<"Status: ${body.output.state || body.output.status}",
                Or(Get(Get(body, "output"), "state"), Get(Get(body, "output"), "status"))>>)
  ELSE Text(<<"${JSON.stringify(body, null, 2)}", body>>)

(***************************************************************************)
(* Inputs: what the user types and what the backend answers.               *)
(***************************************************************************)
RECURSIVE Join(_)
\* the words of ws with one space between them
Join(ws) == IF Len(ws) = 0 THEN <<>>
            ELSE IF Len(ws) = 1 THEN ws[1]
            ELSE ws[1] \o SP \o Join(Tail(ws))

id_a == <<"a">>
id_Ab == <<"A", "b">>
s_runs == <<"r", "u", "n", "s">>

\* the texts typed into the input box of the Chatbot of src/Analytics.jsx
Inputs ==
  { Join(<<s_list, s_all, s_dags>>),         \* list
    Join(<<s_show, s_status, s_of, s_all>>), \* list and details patterns
    Join(<<s_search, s_for, id_a>>),         \* search, term captured
    Join(<<s_search, s_pause, id_a>>),       \* search (term after the word) and pause
    s_search,                                \* search with no term
    Join(<<s_details, s_for, id_a>>),        \* details
    Join(<<s_pause, id_Ab>>),                \* pause
    Join(<<s_unpause, id_a>>),               \* unpause <id>
    Join(<<s_resume, id_a>>),                \* resume <id>
    Join(<<s_trigger, id_a>>),               \* trigger
    Join(<<s_latest, s_run, s_for, id_a>>),  \* latest run for <id>
    Join(<<s_last, s_runs, s_of, id_a>>),    \* latest-run pattern only
    <<"h", "i">>,                            \* no pattern
    SP }                                     \* blank

\* a workflow entry of a list payload
Dag(i) == JObj([dag_id |-> JStr(<<"d", "_">> \o <<CHOOSE c \in Digits : c = ToString(i)>>),
                is_paused |-> JBool(i % 2 = 0)])
DagPayload(n) == JObj([output |-> JObj([dags |-> JArr([i \in 1..n |-> Dag(i)])])])

\* the bodies a 2xx answer of the query endpoint carries
Bodies ==
  { DagPayload(n) : n \in 0..MaxDags } \cup
  { JNull,
    \* a detail payload that carries a latest_run of its own
    JObj([latest_run |-> JObj([state |-> JStr(<<"o", "k">>)])]),
    \* a run record, with the dag_id of its workflow
    JObj([dag_id |-> JStr(<<"z">>), state |-> JStr(<<"o", "k">>),
          dag_run_id |-> JStr(<<"r", "1">>)]) }

\* the outcomes of one fetch of the query endpoint
NetOutcomes ==
  { Unreachable, Response(500, EmptyObj), Response(200, Unparseable) } \cup
  { Response(200, b) : b \in Bodies }

(***************************************************************************)
(* State of a Chatbot component, and of AnalyticsDashboard.                *)
(***************************************************************************)
VARIABLES
  messages,     \* useState: the message list
  input,        \* useState: the text of the input box
  loading,      \* useState: the in-progress flag
  dagList,      \* useState: the entity list shown in the table
  dagDetails,   \* useState: the detail record, JNull when none
  currentPage,  \* useState: the page of the table
  apiKey,       \* whether the build configures a language-model credential
  dagData,      \* useState of AnalyticsDashboard: the workflows loaded
  filters,      \* useState of AnalyticsDashboard: searchTerm, statusFilter,
                \* activeFilter and tagFilter
  turns         \* the sendMessage runs started so far, in order: for each its query,
                \* the rule taken, the fetches issued with their results, the bot
                \* replies it appended, what it gave to setDagList and setDagDetails,
                \* whether it has ended and the entity list it left behind

vars == <<messages, input, loading, dagList, dagDetails, currentPage, apiKey, dagData,
          filters, turns>>

\* the filters of AnalyticsDashboard as useState sets them, src/Analytics.jsx
\* lines 23-26
NoFilters == [searchTerm |-> <<>>, statusFilter |-> "all", activeFilter |-> "all",
              tagFilter |-> <<>>]

Keep == [t |-> "keep"]
UserMsg(text) == [sender |-> "user", text |-> text]
BotMsg(text) == [sender |-> "bot", text |-> text]
\* a fetch: the endpoint, what the request body carries, and the result slot
Call(to, body) == [to |-> to, body |-> body, result |-> Pending]
McpCall(query) == Call("MCP_URL", query)

\* the welcome message of useState, src/Analytics.jsx lines 366-371
Welcome == BotMsg(Text(<<"Hello! I am your Airflow assistant. ...">>))

Init ==
  /\ messages = <<Welcome>>
  /\ input = <<>>
  /\ loading = FALSE
  /\ dagList = JArr(<<>>)
  /\ dagDetails = JNull
  /\ currentPage = 1
  /\ apiKey = FALSE
  /\ dagData = JArr(<<>>)
  /\ filters = NoFilters
  /\ turns = <<>>

InFlight == {t \in 1..Len(turns) : ~turns[t].ended}

(***************************************************************************)
(* sendMessage of src/Analytics.jsx, up to its first await.                *)
(***************************************************************************)
q_list_all_dags == Join(<<s_list, s_all, s_dags>>)
q_search_dags(term) == Join(<<s_search, s_dags, term>>)
q_get_dag_details(id) == Join(<<s_get, s_dag, s_details, id>>)
q_get_latest_run(id) == Join(<<s_get, s_latest, s_run, id>>)
q_pause_dag(id) == Join(<<s_pause, s_dag, id>>)
q_unpause_dag(id) == Join(<<s_unpause, s_dag, id>>)
q_trigger_dag(id) == Join(<<s_trigger, s_dag, id>>)

\* what a rule of the cascade gives: the rule taken, its captured id or term, and
\* the queries of the backend calls issued before the first await; NoMatch when
\* the rule's test fails and the next rule is tried
NoMatch == [rule |-> "none"]
Rule(rule, arg, queries) == [rule |-> rule, arg |-> arg, queries |-> queries]

\* lines 494-495
listRule(query) ==
  IF listTest(query) THEN Rule("list", <<>>, <<q_list_all_dags>>) ELSE NoMatch

\* lines 523-527: no call when the term is empty
searchRule(query) ==
  IF searchMatch(query) # <<>> \/ searchTest(query)
  THEN Rule("search", searchTerm(query),
            IF searchTerm(query) # <<>> THEN <<q_search_dags(searchTerm(query))>> ELSE <<>>)
  ELSE NoMatch

\* lines 548-557: both calls are issued, then Promise.all is awaited
detailsRule(query) ==
  IF detailsMatch(query) # <<>>
  THEN Rule("details", detailsMatch(query),
            <<q_get_dag_details(detailsMatch(query)), q_get_latest_run(detailsMatch(query))>>)
  ELSE NoMatch

\* lines 583-586
pauseRule(query) ==
  IF pauseMatch(query) # <<>>
  THEN Rule("pause", pauseMatch(query), <<q_pause_dag(pauseMatch(query))>>)
  ELSE NoMatch

\* the unpause rule with the query text of the pause rule
unpauseRule_pauseText(query) ==
  IF unpauseMatch(query) # <<>>
  THEN Rule("unpause", unpauseMatch(query), <<q_pause_dag(unpauseMatch(query))>>)
  ELSE NoMatch

\* lines 603-606
unpauseRule(query) ==
  IF unpauseMatch(query) # <<>>
  THEN Rule("unpause", unpauseMatch(query), <<q_unpause_dag(unpauseMatch(query))>>)
  ELSE NoMatch

\* lines 623-626
triggerRule(query) ==
  IF triggerMatch(query) # <<>>
  THEN Rule("trigger", triggerMatch(query), <<q_trigger_dag(triggerMatch(query))>>)
  ELSE NoMatch

\* lines 652-655
latestRule(query) ==
  IF runMatch(query) # <<>>
  THEN Rule("latest", runMatch(query), <<q_get_latest_run(runMatch(query))>>)
  ELSE NoMatch

\* line 684
defaultRule(query) == Rule("default", <<>>, <<query>>)

\* the first rule of rs whose test succeeds
Cascade(rs) == rs[SetMin({k \in 1..Len(rs) : rs[k] # NoMatch})]

\* the cascade with the details rule tried before the list rule
Dispatch_detailsFirst(query) ==
  Cascade(<<detailsRule(query), listRule(query), searchRule(query), pauseRule(query),
            unpauseRule(query), triggerRule(query), latestRule(query), defaultRule(query)>>)

\* lines 492-684: the if-blocks of sendMessage in their order, each ending in return
Dispatch(query) ==
  Cascade(<<listRule(query), searchRule(query), detailsRule(query), pauseRule(query),
            unpauseRule(query), triggerRule(query), latestRule(query), defaultRule(query)>>)

\* Dispatch, evaluated once for every text that can be typed
Queries == {trim(v) : v \in Inputs} \ {<<>>}
DispatchOf == [q \in Queries |-> Dispatch(q)]

\* the record of a sendMessage run that has issued the fetches of calls
NewTurn(query, rule, arg, calls) ==
  [query |-> query, rule |-> rule, arg |-> arg, calls |-> calls,
   replies |-> <<>>, setList |-> Keep, setDetails |-> Keep,
   ended |-> Len(calls) = 0, listAfter |-> dagList]

\* sendMessage after its first line, for the trimmed text query and what the
\* cascade gives for it
StartTurn(query, d) ==
  /\ Len(turns) < MaxTurns
  /\ messages' = Append(messages, UserMsg(input))
  /\ input' = <<>>
  /\ dagDetails' = JNull
  \* a search with no term awaits nothing and clears the flag at once
  /\ loading' = (Len(d.queries) > 0)
  /\ turns' = Append(turns, NewTurn(query, d.rule, d.arg,
                                    [k \in 1..Len(d.queries) |-> McpCall(d.queries[k])]))
  /\ UNCHANGED <<dagList, currentPage, apiKey, dagData, filters>>

\* sendMessage without its first line: a blank input is submitted like any other
sendMessage_noGuard == StartTurn(trim(input), Dispatch(trim(input)))

sendMessage ==
  IF trim(input) = <<>>
  THEN UNCHANGED vars
  ELSE StartTurn(trim(input), DispatchOf[trim(input)])

\* the textarea's onChange
onChange ==
  /\ Len(turns) < MaxTurns
  /\ \E v \in Inputs : v # input /\ input' = v
  /\ UNCHANGED <<messages, loading, dagList, dagDetails, currentPage, apiKey, dagData, filters, turns>>

\* the send button, disabled={loading || !input.trim()}
sendButton ==
  /\ ~(loading \/ trim(input) = <<>>)
  /\ sendMessage

\* onKeyDown with Enter and no Shift
handleKeyPress == sendMessage

(***************************************************************************)
(* sendMessage of src/Analytics.jsx, after its await: what the rule does   *)
(* with the result(s).  An effect names the bot replies appended, the      *)
(* value given to setDagList (with setCurrentPage(1)) and the value given  *)
(* to setDagDetails, Keep when the setter is not called, and the fetches   *)
(* issued next, none when the run ends here.                               *)
(***************************************************************************)
Effect(replies, list, details) ==
  [replies |-> replies, setList |-> list, setDetails |-> details, next |-> <<>>]
Say(parts) == Effect(<<Text(parts)>>, Keep, Keep)

\* catch (err): the reply of the handler; state set before the throw stays set
Caught(message, list) ==
  Effect(<<Text(<<"Error: ${err.message}", message>>)>>, list, Keep)

\* dags.filter(d => !d.is_paused) throws on a value that is no array, and on an
\* entry that is null or undefined
FilterThrows(dags) == ~IsArray(dags) \/ \E i \in 1..Len(dags.a) : Nullish(dags.a[i])
Count(dags, paused) ==
  Cardinality({i \in 1..Len(dags.a) : Truthy(Get(dags.a[i], "is_paused")) = paused})
Length(dags) == IF dags.t = "arr" THEN Len(dags.a) ELSE Len(dags.s)

\* lines 495-520
listDone(result) ==
  IF result.ok /\ Truthy(result.body)
  THEN LET dags == extractDags(result.body)
       IN IF LengthPositive(dags)
          THEN IF FilterThrows(dags)
               THEN Caught("dags.filter is not a function", dags)
               ELSE Effect(<<Text(<<"Found **${dags.length} DAGs** Active: ${activeCount} Paused: ${pausedCount} Showing in table below.",
                                    Length(dags), Count(dags, FALSE), Count(dags, TRUE)>>)>>,
                           dags, Keep)
          ELSE Say(<<"No DAGs found.">>)
  ELSE Say(<<"Could not connect to Airflow server.">>)

\* lines 527-544
searchDone(searchTerm_, result) ==
  IF result.ok
  THEN LET dags == extractDags(result.body)
       IN IF LengthPositive(dags)
          THEN Effect(<<Text(<<"Found ${dags.length} DAG(s) matching <${searchTerm}>",
                               Length(dags), searchTerm_>>)>>, dags, Keep)
          ELSE Say(<<"No DAGs found matching <${searchTerm}>", searchTerm_>>)
  ELSE Effect(<<>>, Keep, Keep)

\* { ...body }: the own enumerable properties of body
Spread(body) ==
  CASE body.t = "obj" -> body.o
    [] body.t = "arr" -> [k \in {ToString(i - 1) : i \in 1..Len(body.a)} |->
                            body.a[CHOOSE i \in 1..Len(body.a) : ToString(i - 1) = k]]
    [] body.t = "str" -> [k \in {ToString(i - 1) : i \in 1..Len(body.s)} |->
                            JStr(<<body.s[CHOOSE i \in 1..Len(body.s) : ToString(i - 1) = k]>>)]
    [] OTHER -> <<>>

\* f with key k set to v
With(f, k, v) == [x \in DOMAIN f \cup {k} |-> IF x = k THEN v ELSE f[x]]

\* lines 562-570: { dag_id: dagId, ...detailsRes.body }, then latest_run
DetailsRecord(dagId, detailsRes, runRes) ==
  LET spread == Spread(detailsRes.body)
      base == [x \in DOMAIN spread \cup {"dag_id"} |->
                 IF x \in DOMAIN spread THEN spread[x] ELSE JStr(dagId)]
  IN JObj(IF runRes.ok THEN With(base, "latest_run", runRes.body) ELSE base)

\* lines 554-579, once both calls of Promise.all have returned
detailsDone(dagId, detailsRes, runRes) ==
  IF detailsRes.ok
  THEN Effect(<<Text(<<"Details for ${dagId} shown below.", dagId>>)>>,
              Keep, DetailsRecord(dagId, detailsRes, runRes))
  ELSE Say(<<"DAG ${dagId} not found.", dagId>>)

\* lines 586-599, 606-619: verb is "pause" or "unpause"
pauseDone(verb, dagId, result) ==
  IF result.ok
  THEN LET responseText == parseMCPResponse(result.body)
       IN IF IsThrown(responseText) THEN Caught(responseText.message, Keep)
          ELSE Say(<<"${Verb} request sent for ${dagId} Server response: ${responseText}",
                     verb, dagId, responseText>>)
  ELSE Say(<<"Failed to ${verb} ${dagId}. Server returned: ${result.status}",
             verb, dagId, result.status>>)

\* lines 626-649
triggerDone(dagId, result) ==
  IF result.ok
  THEN LET responseText == parseMCPResponse(result.body)
           runId == Or(Get(result.body, "dag_run_id"),
                       Or(Get(Get(result.body, "output"), "dag_run_id"),
                          Get(Get(result.body, "data"), "dag_run_id")))
       IN IF IsThrown(responseText) THEN Caught(responseText.message, Keep)
          ELSE IF Truthy(runId)
          THEN Say(<<"Triggered ${dagId} Run ID: ${runId} Server response: ${responseText}",
                     dagId, runId, responseText>>)
          ELSE Say(<<"Trigger request sent for ${dagId} Server response: ${responseText}",
                     dagId, responseText>>)
  ELSE Say(<<"Failed to trigger ${dagId}. Server returned: ${result.status}",
             dagId, result.status>>)

\* lines 655-680
latestDone(dagId, result) ==
  IF result.ok /\ Truthy(result.body)
  THEN LET responseText == parseMCPResponse(result.body)
           run == Or(Get(result.body, "output"), result.body)
       IN IF Truthy(Get(run, "state")) \/ Truthy(Get(run, "dag_run_id"))
          THEN IF Truthy(Get(run, "state")) /\ Get(run, "state").t # "str"
               THEN Caught("run.state?.toUpperCase is not a function", Keep)
               ELSE Say(<<"Latest run for ${dagId}: State: **${run.state?.toUpperCase() || <UNKNOWN>}** Started: ${run.start_date || <N/A>} Run ID: ${run.dag_run_id || <N/A>}",
                          dagId, Get(run, "state"), Get(run, "start_date"), Get(run, "dag_run_id")>>)
          ELSE Say(<<"Latest run info for ${dagId}: ${responseText}", dagId, responseText>>)
  ELSE Say(<<"No runs found for ${dagId}", dagId>>)

\* lines 684-698
defaultDone(query, result) ==
  IF result.ok
  THEN LET responseText == parseMCPResponse(result.body)
       IN IF IsThrown(responseText) THEN Caught(responseText.message, Keep)
          ELSE Say(<<"${responseText || <Request completed but no response data.>}", responseText>>)
  ELSE Say(<<"Server error (${result.status}). Make sure the MCP server is running on port 8800. Query: <${query}>",
             result.status, query>>)

\* the rest of sendMessage for a turn whose awaited calls have all returned
Continue(turn) ==
  CASE turn.rule = "list" -> listDone(turn.calls[1].result)
    [] turn.rule = "search" -> searchDone(turn.arg, turn.calls[1].result)
    [] turn.rule = "details" -> detailsDone(turn.arg, turn.calls[1].result, turn.calls[2].result)
    [] turn.rule \in {"pause", "unpause"} -> pauseDone(turn.rule, turn.arg, turn.calls[1].result)
    [] turn.rule = "trigger" -> triggerDone(turn.arg, turn.calls[1].result)
    [] turn.rule = "latest" -> latestDone(turn.arg, turn.calls[1].result)
    [] OTHER -> defaultDone(turn.query, turn.calls[1].result)

\* the run resumes as soon as its first call has returned
Joined_first(turn) == turn.calls[1].result # Pending

\* await / Promise.all: the run resumes when none of its calls is pending
Joined(turn) == \A j \in 1..Len(turn.calls) : turn.calls[j].result # Pending

AppendAll(ms, texts) == ms \o [i \in 1..Len(texts) |-> BotMsg(texts[i])]

\* the run resumes and replaces the entity list without setCurrentPage(1)
Resume_keepPage(t, returned, e) ==
  /\ messages' = AppendAll(messages, e.replies)
  /\ dagList' = IF e.setList = Keep THEN dagList ELSE e.setList
  /\ currentPage' = currentPage
  /\ dagDetails' = IF e.setDetails = Keep THEN dagDetails ELSE e.setDetails
  /\ loading' = IF e.next = <<>> THEN FALSE ELSE loading
  /\ turns' = [turns EXCEPT ![t] =
        [returned EXCEPT !.calls = returned.calls \o e.next,
                         !.replies = returned.replies \o e.replies,
                         !.setList = IF e.setList = Keep THEN returned.setList ELSE e.setList,
                         !.setDetails = IF e.setDetails = Keep THEN returned.setDetails
                                        ELSE e.setDetails,
                         !.ended = (e.next = <<>>),
                         !.listAfter = dagList']]

\* the state change when the run of turn t, its record now being returned, resumes
\* with effect e: it appends the replies and calls the setters, and it either issues
\* the next fetches or ends, clearing the in-progress flag
Resume(t, returned, e) ==
  /\ messages' = AppendAll(messages, e.replies)
  /\ dagList' = IF e.setList = Keep THEN dagList ELSE e.setList
  /\ currentPage' = IF e.setList = Keep THEN currentPage ELSE 1
  /\ dagDetails' = IF e.setDetails = Keep THEN dagDetails ELSE e.setDetails
  /\ loading' = IF e.next = <<>> THEN FALSE ELSE loading
  /\ turns' = [turns EXCEPT ![t] =
        [returned EXCEPT !.calls = returned.calls \o e.next,
                         !.replies = returned.replies \o e.replies,
                         !.setList = IF e.setList = Keep THEN returned.setList ELSE e.setList,
                         !.setDetails = IF e.setDetails = Keep THEN returned.setDetails
                                        ELSE e.setDetails,
                         !.ended = (e.next = <<>>),
                         !.listAfter = dagList']]

\* a fetch of turn t settles with outcome net and callMCPServer returns; when no
\* call of the turn is pending any more, sendMessage resumes and runs to its end
Settle(t, k, net) ==
  /\ ~turns[t].ended
  /\ turns[t].calls[k].result = Pending
  /\ LET returned == [turns[t] EXCEPT !.calls[k].result = callMCPServer(net)]
     IN IF Joined(returned)
        THEN Resume(t, returned, Continue(returned))
        ELSE /\ turns' = [turns EXCEPT ![t] = returned]
             /\ UNCHANGED <<messages, dagList, currentPage, dagDetails, loading>>
  /\ UNCHANGED <<input, apiKey, dagData, filters>>

fetchSettles ==
  \E t \in 1..Len(turns) : \E k \in 1..Len(turns[t].calls) : \E net \in NetOutcomes :
    Settle(t, k, net)

Next ==
  \/ onChange
  \/ sendButton
  \/ handleKeyPress
  \/ fetchSettles

Spec == Init /\ [][Next]_vars

(***************************************************************************)
(* The Chatbot of src/Chatbot2.jsx, lines 9-225: the rerun rule, the list  *)
(* rule and the default of forwarding to the backend and then to the       *)
(* language model.  Names that src/Analytics.jsx also has carry _RL.       *)
(***************************************************************************)
s_show_all_dags == Join(<<s_show, s_all, s_dags>>)

\* query.toLowerCase().match(/\brerun\s+([a-zA-Z0-9_\-:.]+)/): the capture group of
\* the leftmost match, taken from the lowered text
rerunMatch(query) ==
  LET q == toLowerCase(query)
      Cap(p) == IF p + 5 > Len(q) THEN <<>>
                ELSE LET b == SkipSpaces(q, p + 5)
                         e == IF b <= Len(q) THEN SkipId(q, b) ELSE b
                     IN IF b > p + 5 /\ e > b THEN SubSeq(q, b, e - 1) ELSE <<>>
      P == {p \in 1..Len(q) : /\ LitAt(q, p, s_rerun)
                              /\ (p = 1 \/ ~IsWordChar(q[p - 1]))
                              /\ Cap(p) # <<>>}
  IN IF P = {} THEN <<>> ELSE Cap(SetMin(P))

\* /\blist\b.*\bdag/i.test(query) || /show all dags/i.test(query)
listTest_RL(q) ==
  \/ \E p \in 1..Len(q) :
       /\ WordAt(q, p, s_list)
       /\ \E r \in (p + 4)..Len(q) : LitAt(q, r, s_dag) /\ ~IsWordChar(q[r - 1])
  \/ \E p \in 1..Len(q) : LitAt(q, p, s_show_all_dags)

\* what a fetch, and res.json() on its response, leave in the result slot of a call
\* that callMCPServer does not wrap: the fetch rejects, or there is a response whose
\* body parses or is Unparseable
Rejected == [t |-> "rejected", ok |-> FALSE, status |-> 0, body |-> JUndef]
Fetched(net) ==
  IF net.t = "unreachable" THEN Rejected
  ELSE Result(ResOk(net.status), net.status, net.body)

\* callMCPServer: res.json().catch(() => ({})) keeps ok and status of the response
callMCPServer_RL(net) ==
  IF net.t = "unreachable" THEN Result(FALSE, 0, JNull)
  ELSE Result(ResOk(net.status), net.status,
              IF net.body = Unparseable THEN EmptyObj ELSE net.body)

extractDags_RL(mcpBody) ==
  IF ~Truthy(mcpBody) THEN JArr(<<>>)
  ELSE IF Truthy(Get(mcpBody, "output")) /\ IsArray(Get(Get(mcpBody, "output"), "dags"))
    THEN Get(Get(mcpBody, "output"), "dags")
  ELSE IF IsArray(Get(mcpBody, "dags")) THEN Get(mcpBody, "dags")
  ELSE IF Truthy(Get(mcpBody, "data")) /\ IsArray(Get(Get(mcpBody, "data"), "dags"))
    THEN Get(Get(mcpBody, "data"), "dags")
  ELSE IF Truthy(Get(mcpBody, "data")) /\ IsArray(Get(mcpBody, "data"))
    THEN Get(mcpBody, "data")
  ELSE IF IsArray(Get(mcpBody, "results")) THEN Get(mcpBody, "results")
  ELSE IF IsArray(mcpBody) THEN mcpBody
  ELSE JArr(<<>>)

\* JSON.stringify(d): a text, never empty
Stringify(d) == [t |-> "json", of |-> d]

\* the callback of rawDags.map
normalizeEntry(d) ==
  IF ~Truthy(d) THEN JStr(<<>>)
  ELSE IF d.t = "str" THEN d
  ELSE Or(Get(d, "dag_id"), Or(Get(d, "dagId"), Or(Get(d, "id"), Stringify(d))))

\* rawDags.map(...).filter(Boolean)
normalizeDagList(rawDags) ==
  JArr(SelectSeq([i \in 1..Len(rawDags.a) |-> normalizeEntry(rawDags.a[i])], Truthy))

\* the texts typed into the input box of this Chatbot
Inputs_RL ==
  { Join(<<s_rerun, id_Ab>>),                  \* rerun
    Join(<<s_list, s_dags>>),                  \* list
    s_show_all_dags,                           \* list, second pattern
    Join(<<s_list, s_dags, s_rerun, id_a>>),   \* rerun and list patterns
    s_rerun,                                   \* no pattern: rerun with no id
    SP }                                       \* blank

\* the bodies a 2xx answer of the query endpoint carries
Bodies_RL ==
  { DagPayload(n) : n \in 0..MaxDags } \cup
  { JNull,
    JObj([dags |-> JArr(<<JNull>>)]),
    JObj([dags |-> JArr(<<JNull, JStr(<<"x">>)>>)]),
    JObj([data |-> JArr(<<JObj([id |-> JStr(<<"y">>)]), EmptyObj>>)]) }

\* the bodies an answer of the rerun endpoint carries
RerunBodies ==
  { JObj([success |-> JBool(TRUE), data |-> JObj([dag_run_id |-> JStr(<<"r", "1">>)])]),
    JObj([success |-> JBool(FALSE)]),
    JNull,
    Unparseable }

\* the bodies an answer of the language-model endpoint carries
GroqBodies ==
  { JObj([choices |-> JArr(<<JObj([message |-> JObj([content |-> JStr(<<"o", "k">>)])])>>)]),
    JObj([error |-> JStr(<<"n", "o">>)]),
    JNull,
    Unparseable }

\* the outcomes of one fetch of endpoint to
Outcomes_RL(to) ==
  CASE to = "MCP_URL" ->
         {Unreachable, Response(500, EmptyObj), Response(200, Unparseable)} \cup
         {Response(200, b) : b \in Bodies_RL}
    [] to = "TOOL_RERUN_URL" ->
         {Unreachable} \cup {Response(st, b) : st \in {200, 500}, b \in RerunBodies}
    [] to = "GROQ_API" ->
         {Unreachable} \cup {Response(200, b) : b \in GroqBodies}

\* useState of the message list, src/Chatbot2.jsx line 10
Welcome_RL == BotMsg(Text(<<"INPUT PLEASE">>))

\* the state after construction; the credential is a matter of the build
Init_RL ==
  /\ messages = <<Welcome_RL>>
  /\ input = <<>>
  /\ loading = FALSE
  /\ dagList = JArr(<<>>)
  /\ dagDetails = JNull
  /\ currentPage = 1
  /\ apiKey \in BOOLEAN
  /\ dagData = JArr(<<>>)
  /\ filters = NoFilters
  /\ turns = <<>>

\* what a rule gives here: the rule taken, its captured id, and the fetches issued
\* before the first await
Fetches(rule, arg, calls) == [rule |-> rule, arg |-> arg, calls |-> calls]

\* lines 143-151
rerunRule(query) ==
  IF rerunMatch(query) # <<>>
  THEN Fetches("rerun", rerunMatch(query),
               <<Call("TOOL_RERUN_URL", JObj([dag_id |-> JStr(rerunMatch(query))]))>>)
  ELSE NoMatch

\* lines 189-191
listRule_RL(query) ==
  IF listTest_RL(query) THEN Fetches("list", <<>>, <<McpCall(q_list_all_dags)>>) ELSE NoMatch

\* lines 214-215
defaultRule_RL(query) == Fetches("default", <<>>, <<McpCall(query)>>)

\* the list rule tried before the rerun rule
Dispatch_RL_listFirst(query) ==
  Cascade(<<listRule_RL(query), rerunRule(query), defaultRule_RL(query)>>)

\* lines 142-215: the rules of sendMessage in their order, each ending in return
Dispatch_RL(query) ==
  Cascade(<<rerunRule(query), listRule_RL(query), defaultRule_RL(query)>>)

Queries_RL == {trim(v) : v \in Inputs_RL} \ {<<>>}
DispatchOf_RL == [q \in Queries_RL |-> Dispatch_RL(q)]

\* lines 132-140, and on to the first await
sendMessage_RL ==
  IF trim(input) = <<>>
  THEN UNCHANGED vars
  ELSE LET query == trim(input)
           d == DispatchOf_RL[query]
       IN /\ Len(turns) < MaxTurns
          /\ messages' = Append(messages, UserMsg(input))
          /\ input' = <<>>
          /\ loading' = TRUE
          /\ turns' = Append(turns, NewTurn(query, d.rule, d.arg, d.calls))
          /\ UNCHANGED <<dagList, dagDetails, currentPage, apiKey, dagData, filters>>

\* the textarea's onChange
onChange_RL ==
  /\ Len(turns) < MaxTurns
  /\ \E v \in Inputs_RL : v # input /\ input' = v
  /\ UNCHANGED <<messages, loading, dagList, dagDetails, currentPage, apiKey, dagData, filters, turns>>

\* the send button, disabled={loading || !input.trim()}
sendButton_RL ==
  /\ ~(loading \/ trim(input) = <<>>)
  /\ sendMessage_RL

\* onKeyDown with Enter and no Shift
handleKeyPress_RL == sendMessage_RL

\* an effect that issues more fetches and leaves the run awaiting them
Await(calls) == [replies |-> <<>>, setList |-> Keep, setDetails |-> Keep, next |-> calls]

\* lines 152-183, once the fetch of the rerun endpoint has settled
rerunDone(dagId, res) ==
  IF res = Rejected
  THEN Say(<<"Error: Could not reach MCP server. Is it running on port 8800? (${err.message || err})">>)
  ELSE LET body == IF res.body = Unparseable THEN EmptyObj ELSE res.body
           data == Get(body, "data")
           runId == Or(Get(data, "dag_run_id"),
                       Or(Get(data, "run_id"),
                          Or(Get(data, "dagRunId"), Get(Get(data, "dag_run"), "dag_run_id"))))
       IN IF res.ok /\ Truthy(Get(body, "success"))
          THEN Say(<<"DAG ${dagId} has been triggered successfully. Run ID: ${runId || <manual>}",
                     dagId, runId>>)
          ELSE IF res.ok
          THEN Say(<<"Failed to trigger DAG ${dagId}. Server responded with unexpected payload.",
                     dagId>>)
          ELSE Say(<<"Error: Failed to trigger DAG ${dagId}. HTTP ${res.status}", dagId, res.status>>)

\* lines 192-210
listDone_RL(result) ==
  IF ~result.ok
  THEN Say(<<"No DAGs found or server not responding.">>)
  ELSE LET dags == extractDags_RL(result.body)
       IN IF Len(dags.a) > 0
          THEN Effect(<<Text(<<"Found ${normalized.length} DAGs. Showing in table below.",
                               Len(normalizeDagList(dags).a)>>)>>,
                      normalizeDagList(dags), Keep)
          ELSE Say(<<"No DAGs found or server not responding.">>)

\* lines 214-218 and 73-76: with the backend's answer in hand callGroqModel starts;
\* with no credential it returns its notice at once, else it issues its fetch
defaultDone_RL(query, mcpRes) ==
  IF ~apiKey
  THEN Say(<<"Missing Groq API key. Add VITE_GROQ_API_KEY to .env">>)
  ELSE Await(<<Call("GROQ_API", [userMessage |-> query, airflowData |-> mcpRes.body])>>)

\* lines 92-96 and 218: what callGroqModel returns once its fetch has settled, as the
\* reply; a rejected fetch, an unparseable body and a null body end in its catch
groqDone(res) ==
  IF res = Rejected \/ res.body = Unparseable \/ Nullish(res.body)
  THEN Say(<<"Groq Error: ${err.message}">>)
  ELSE LET content == Get(Get(At(Get(res.body, "choices"), 0), "message"), "content")
       IN IF Truthy(content) THEN Say(<<"${reply}", content>>)
          ELSE Say(<<"Error: No response from model.">>)

\* the rest of sendMessage for a turn whose awaited call has returned
Continue_RL(turn) ==
  CASE turn.rule = "rerun" -> rerunDone(turn.arg, turn.calls[1].result)
    [] turn.rule = "list" -> listDone_RL(turn.calls[1].result)
    [] turn.rule = "default" /\ Len(turn.calls) = 1 ->
         defaultDone_RL(turn.query, turn.calls[1].result)
    [] OTHER -> groqDone(turn.calls[2].result)

\* a fetch of turn t settles with outcome net, and sendMessage resumes
Settle_RL(t, k, net) ==
  /\ ~turns[t].ended
  /\ turns[t].calls[k].result = Pending
  /\ LET call == turns[t].calls[k]
         returned == [turns[t] EXCEPT !.calls[k].result =
                        IF call.to = "MCP_URL" THEN callMCPServer_RL(net) ELSE Fetched(net)]
     IN Resume(t, returned, Continue_RL(returned))
  /\ UNCHANGED <<input, apiKey, dagData, filters>>

fetchSettles_RL ==
  \E t \in 1..Len(turns) : \E k \in 1..Len(turns[t].calls) :
    \E net \in Outcomes_RL(turns[t].calls[k].to) : Settle_RL(t, k, net)

Next_RL ==
  \/ onChange_RL
  \/ sendButton_RL
  \/ handleKeyPress_RL
  \/ fetchSettles_RL

SpecB == Init_RL /\ [][Next_RL]_vars

(***************************************************************************)
(* The AI-driven Chatbot of src/Chatbot2.jsx, lines 457-1030: the language *)
(* model turns the utterance into a command, which goes to the backend.    *)
(* Names that the other components also have carry _AI.                    *)
(***************************************************************************)
NL == "\n"

RECURSIVE split(_, _)
\* String.prototype.split with a one-character separator: the pieces, in order
split(str, sep) ==
  LET P == {i \in 1..Len(str) : str[i] = sep}
  IN IF P = {} THEN <<str>>
     ELSE <<SubSeq(str, 1, SetMin(P) - 1)>> \o split(SubSeq(str, SetMin(P) + 1, Len(str)), sep)

\* String.prototype.startsWith
startsWith(str, pre) == Len(str) >= Len(pre) /\ \A i \in 1..Len(pre) : str[i] = pre[i]

\* str.split(/\s+/).slice(-1)[0]: what follows the last white space
lastWord(str) ==
  LET W == {i \in 1..Len(str) : IsSpace(str[i])}
  IN IF W = {} THEN str ELSE SubSeq(str, SetMax(W) + 1, Len(str))

\* callMCPServer, lines 527-540: res.json() is awaited inside the try, so a body
\* that does not parse ends in the catch like an unreachable server
callMCPServer_AI(net) ==
  IF net.t = "unreachable" \/ net.body = Unparseable
  THEN Result(FALSE, 0, JNull)
  ELSE Result(ResOk(net.status), net.status, net.body)

\* extractDags, lines 543-550
extractDags_AI(mcpBody) ==
  IF ~Truthy(mcpBody) THEN JArr(<<>>)
  ELSE IF Truthy(Get(Get(mcpBody, "output"), "dags")) THEN Get(Get(mcpBody, "output"), "dags")
  ELSE IF IsArray(Get(mcpBody, "dags")) THEN Get(mcpBody, "dags")
  ELSE IF IsArray(Get(mcpBody, "results")) THEN Get(mcpBody, "results")
  ELSE IF IsArray(mcpBody) THEN mcpBody
  ELSE JArr(<<>>)

\* JSON.stringify(v, null, 2)
StringifyPretty(v) == [t |-> "json2", of |-> v]

\* parseMCPResponse, lines 553-588: the value returned
parseMCPResponse_AI(body) ==
  IF ~Truthy(body) THEN Text(<<"No response body.">>)
  ELSE IF Truthy(Get(body, "success")) /\ Truthy(Get(body, "message"))
    THEN Get(body, "message")
  ELSE IF Truthy(Get(body, "error"))
    THEN Text(<<"Error: ${body.error}", Get(body, "error")>>)
  ELSE IF Truthy(Get(body, "output")) /\ Get(body, "output").t = "str"
    THEN Get(body, "output")
  ELSE IF Truthy(Get(body, "output")) /\ Truthy(Get(Get(body, "output"), "message"))
    THEN Get(Get(body, "output"), "message")
  ELSE IF Truthy(Get(body, "output"))
          /\ (Truthy(Get(Get(body, "output"), "state")) \/ Truthy(Get(Get(body, "output"), "status")))
    THEN Text(<<"Status: ${body.output.state || body.output.status}",
                Or(Get(Get(body, "output"), "state"), Get(Get(body, "output"), "status"))>>)
  ELSE IF Truthy(Get(body, "message")) THEN Get(body, "message")
  ELSE IF Truthy(Get(body, "data")) THEN StringifyPretty(Get(body, "data"))
  ELSE StringifyPretty(body)

\* lines 643-647: data?.choices?.[0]?.message?.content || data?.choices?.[0]?.text
\*                || (typeof data === "string" ? data : null)
aiContent(data) ==
  Or(Get(Get(At(Get(data, "choices"), 0), "message"), "content"),
     Or(Get(At(Get(data, "choices"), 0), "text"),
        IF data.t = "str" THEN data ELSE JNull))

\* the reply is taken whole, trimmed, with no split into lines
sendToAI_noSplit(res) ==
  IF res = Rejected \/ res.body = Unparseable \/ ~Truthy(aiContent(res.body))
     \/ aiContent(res.body).t # "str"
  THEN JNull
  ELSE JStr(trim(aiContent(res.body).s))

\* sendToAI, lines 640-661, once its fetch has settled: null from the catch (the
\* fetch rejects, the body does not parse, content.split is not a function) and
\* for no content, else the first line of the content, trimmed
sendToAI(res) ==
  IF res = Rejected \/ res.body = Unparseable THEN JNull
  ELSE IF ~Truthy(aiContent(res.body)) THEN JNull
  ELSE IF aiContent(res.body).t # "str" THEN JNull
  ELSE JStr(trim(split(aiContent(res.body).s, NL)[1]))

\* what the user types: an utterance with spaces around it and capitals, one in
\* lower case, and a blank
Inputs_AI == { <<" ", "H", "i", " ">>, Join(<<s_list, s_dags>>), SP }

\* replies of the language model
ai_list == Join(<<s_list, s_all, s_dags>>)
ai_details_then_pause ==
  SP \o Join(<<s_get, s_dag, s_details, id_a>>) \o <<" ", NL>> \o Join(<<s_pause, s_dag, id_a>>)
ai_prose == <<"o", "k">>
ai_blank_first_line == <<NL>> \o Join(<<s_list, s_all, s_dags>>)

Choice(c) == JObj([choices |-> JArr(<<JObj([message |-> JObj([content |-> c])])>>)])

\* the bodies an answer of the language-model endpoint carries
GroqBodies_AI ==
  { Choice(JStr(c)) : c \in {ai_list, ai_details_then_pause, ai_prose, ai_blank_first_line} } \cup
  { Choice(JNum(5)),
    JObj([choices |-> JArr(<<JObj([text |-> JStr(ai_list)])>>)]),
    JObj([error |-> JStr(<<"n", "o">>)]),
    Unparseable }

\* the bodies a 2xx answer of the query endpoint carries
Bodies_AI ==
  { DagPayload(1),
    JNull,
    JObj([dag_id |-> JStr(<<"z">>), state |-> JStr(<<"o", "k">>)]) }

\* the outcomes of one fetch of endpoint to
Outcomes_AI(to) ==
  CASE to = "MCP_URL" ->
         {Unreachable, Response(500, EmptyObj), Response(200, Unparseable)} \cup
         {Response(200, b) : b \in Bodies_AI}
    [] to = "GROQ_API" ->
         {Unreachable} \cup {Response(200, b) : b \in GroqBodies_AI}

\* useState of the message list, lines 466-471
Welcome_AI == BotMsg(Text(<<"Hello! I am your Airflow assistant. I can help you: ...">>))

\* the state after construction; GROQ_API_KEY (line 463) is a matter of the build
Init_AI ==
  /\ messages = <<Welcome_AI>>
  /\ input = <<>>
  /\ loading = FALSE
  /\ dagList = JArr(<<>>)
  /\ dagDetails = JNull
  /\ currentPage = 1
  /\ apiKey \in BOOLEAN
  /\ dagData = JArr(<<>>)
  /\ filters = NoFilters
  /\ turns = <<>>

NoKeyNotice ==
  Text(<<"Groq API key not configured. Falling back to local heuristics (no AI).">>)
Interpreting == Text(<<"Interpreting your request...">>)

\* the branch taken before the first await, with the reply it appends first and
\* the fetch it issues
Branch(rule, reply, calls) == [rule |-> rule, reply |-> reply, calls |-> calls]

\* the raw query goes to the backend in lower case
fallbackBranch_lowered(userQuery) ==
  Branch("fallback", NoKeyNotice, <<McpCall(toLowerCase(userQuery))>>)

\* lines 677-684: no credential
fallbackBranch(userQuery) == Branch("fallback", NoKeyNotice, <<McpCall(userQuery)>>)

\* lines 701-702 and 591-598: sendToAI issues its fetch
aiBranch(userQuery) == Branch("ai", Interpreting, <<Call("GROQ_API", userQuery)>>)

\* lines 665-702, up to the first await
sendMessage_AI ==
  IF trim(input) = <<>>
  THEN UNCHANGED vars
  ELSE LET userQuery == trim(input)
           b == IF ~apiKey THEN fallbackBranch(userQuery) ELSE aiBranch(userQuery)
       IN /\ Len(turns) < MaxTurns
          /\ messages' = messages \o <<UserMsg(input), BotMsg(b.reply)>>
          /\ input' = <<>>
          /\ loading' = TRUE
          /\ dagDetails' = JNull
          /\ turns' = Append(turns, [NewTurn(userQuery, b.rule, <<>>, b.calls)
                                       EXCEPT !.replies = <<b.reply>>])
          /\ UNCHANGED <<dagList, currentPage, apiKey, dagData, filters>>

\* the textarea's onChange
onChange_AI ==
  /\ Len(turns) < MaxTurns
  /\ \E v \in Inputs_AI : v # input /\ input' = v
  /\ UNCHANGED <<messages, loading, dagList, dagDetails, currentPage, apiKey, dagData, filters, turns>>

\* the send button, disabled={loading || !input.trim()}
sendButton_AI ==
  /\ ~(loading \/ trim(input) = <<>>)
  /\ sendMessage_AI

\* onKeyDown with Enter and no Shift
handleKeyPress_AI == sendMessage_AI

\* setDagList(dags) under dags.length > 0
ListIfAny(dags) == IF LengthPositive(dags) THEN dags ELSE Keep

\* lines 685-697, once the fallback call has returned
fallbackDone(fallbackRes) ==
  IF fallbackRes.ok
  THEN Effect(<<parseMCPResponse_AI(fallbackRes.body)>>,
              ListIfAny(extractDags_AI(fallbackRes.body)), Keep)
  ELSE Say(<<"MCP Server error (${fallbackRes.status})", fallbackRes.status>>)

RephraseReply == Text(<<"AI could not interpret the request. Try rephrasing.">>)

\* an empty command is taken for a command: only null ends the turn
aiDone_nullOnly(res) ==
  IF sendToAI(res) = JNull
  THEN Effect(<<RephraseReply>>, Keep, Keep)
  ELSE [replies |-> <<Text(<<"Interpreted as: ${aiCommand}", sendToAI(res).s>>)>>,
        setList |-> Keep, setDetails |-> Keep, next |-> <<McpCall(sendToAI(res).s)>>]

\* lines 702-715, once sendToAI has returned: no command ends the turn, else the
\* command is shown and sent to the backend
aiDone(res) ==
  IF ~Truthy(sendToAI(res))
  THEN Effect(<<RephraseReply>>, Keep, Keep)
  ELSE [replies |-> <<Text(<<"Interpreted as: ${aiCommand}", sendToAI(res).s>>)>>,
        setList |-> Keep, setDetails |-> Keep, next |-> <<McpCall(sendToAI(res).s)>>]

\* lines 743-746: { dag_id: dagId, ...result.body }
DetailsRecord_AI(aiCommand, body) ==
  LET spread == Spread(body)
  IN JObj([x \in DOMAIN spread \cup {"dag_id"} |->
             IF x \in DOMAIN spread THEN spread[x] ELSE JStr(lastWord(aiCommand))])

\* lines 718-747, once the call with the command has returned
commandDone(aiCommand, result) ==
  IF ~result.ok
  THEN Say(<<"MCP Server error (${result.status}). Make sure the MCP server is running on ${MCP_URL}.",
             result.status>>)
  ELSE LET responseText == parseMCPResponse_AI(result.body)
           dags == extractDags_AI(result.body)
       IN Effect(<<IF Truthy(responseText) THEN responseText
                   ELSE Text(<<"Request completed but no response data.">>)>>,
                 ListIfAny(dags),
                 IF ~LengthPositive(dags)
                    /\ (\/ startsWith(aiCommand, Join(<<s_get, s_dag, s_details>>))
                        \/ startsWith(aiCommand, Join(<<s_get, s_latest, s_run>>)))
                 THEN DetailsRecord_AI(aiCommand, result.body)
                 ELSE Keep)

\* the rest of sendMessage for a turn whose awaited call has returned
Continue_AI(turn) ==
  CASE turn.rule = "fallback" -> fallbackDone(turn.calls[1].result)
    [] turn.rule = "ai" /\ Len(turn.calls) = 1 -> aiDone(turn.calls[1].result)
    [] OTHER -> commandDone(turn.calls[2].body, turn.calls[2].result)

\* a fetch of turn t settles with outcome net, and sendMessage resumes
Settle_AI(t, k, net) ==
  /\ ~turns[t].ended
  /\ turns[t].calls[k].result = Pending
  /\ LET call == turns[t].calls[k]
         returned == [turns[t] EXCEPT !.calls[k].result =
                        IF call.to = "MCP_URL" THEN callMCPServer_AI(net) ELSE Fetched(net)]
     IN Resume(t, returned, Continue_AI(returned))
  /\ UNCHANGED <<input, apiKey, dagData, filters>>

fetchSettles_AI ==
  \E t \in 1..Len(turns) : \E k \in 1..Len(turns[t].calls) :
    \E net \in Outcomes_AI(turns[t].calls[k].to) : Settle_AI(t, k, net)

\* the promise of a fetch whose server never answers stays pending for good: no
\* timer and no AbortController is set on any fetch of the source
Hung == [t |-> "hung", ok |-> FALSE, status |-> 0, body |-> JUndef]
fetchHangs_AI ==
  \E t \in 1..Len(turns) : \E k \in 1..Len(turns[t].calls) :
    /\ ~turns[t].ended
    /\ turns[t].calls[k].result = Pending
    /\ turns' = [turns EXCEPT ![t].calls[k].result = Hung]
    /\ UNCHANGED <<messages, input, loading, dagList, dagDetails, currentPage, apiKey, dagData, filters>>

Next_AI ==
  \/ onChange_AI
  \/ sendButton_AI
  \/ handleKeyPress_AI
  \/ fetchSettles_AI
  \/ fetchHangs_AI

SpecAI == Init_AI /\ [][Next_AI]_vars

\* every fetch that gets an answer or a network error settles; the event loop runs
\* the continuation of a settled promise
LiveAI == SpecAI /\ WF_vars(fetchSettles_AI)

(***************************************************************************)
(* The helper functions on their own: each action applies one function of  *)
(* one component to an argument drawn from a bounded set and appends the   *)
(* application (function, argument, value returned) to turns; extractDags  *)
(* may be applied once more, to the value it has just returned.  The other *)
(* variables stay as they start.                                           *)
(***************************************************************************)
\* an object of the fields of f that are present (not JUndef)
Obj(f) == JObj([k \in {x \in DOMAIN f : f[x] # JUndef} |-> f[k]])
\* a one-entry sequence, its entry named after the place it is stored at
Seq1(name) == JArr(<<JStr(<<name>>)>>)
Seqs(name) == {JUndef, JArr(<<>>), Seq1(name)}

\* payloads for extractDags: every combination of nothing, an empty sequence and a
\* one-entry sequence at the places it may look at, a text at output.dags, and
\* values that are no object
ExtractPayloads ==
  { Obj([output |-> o, dags |-> d, data |-> a, results |-> r]) :
      o \in {JUndef} \cup {JObj([dags |-> x]) : x \in {JArr(<<>>), Seq1("o"), JStr(<<"s">>)}},
      d \in Seqs("d"),
      a \in {JUndef, JArr(<<>>), Seq1("a")} \cup {JObj([dags |-> x]) : x \in {JArr(<<>>), Seq1("b")}},
      r \in Seqs("r") } \cup
  { JNull, JNum(0), JStr(<<"s">>), JArr(<<>>), Seq1("p") }

\* raw entries for normalizeDagList, and the lists of at most two of them
RawEntries ==
  { JNull, JStr(<<>>), JStr(<<"s">>),
    JObj([dag_id |-> JStr(<<"a">>)]), JObj([dagId |-> JStr(<<"b">>)]),
    JObj([id |-> JStr(<<"c">>)]), JObj([x |-> JNum(1)]) }
RawLists ==
  {JArr(<<>>)} \cup {JArr(<<e>>) : e \in RawEntries}
               \cup {JArr(<<e, f>>) : e \in RawEntries, f \in RawEntries}

\* payloads for parseMCPResponse: every combination of the fields it looks at
ParsePayloads ==
  { Obj([success |-> u, message |-> m, error |-> e, output |-> o, data |-> a]) :
      u \in {JUndef, JBool(TRUE)},
      m \in {JUndef, JStr(<<"m">>)},
      e \in {JUndef, JStr(<<"e">>)},
      o \in {JUndef, JStr(<<"s">>), JObj([message |-> JStr(<<"o", "m">>)]),
             JObj([state |-> JStr(<<"s", "t">>)])},
      a \in {JUndef, JObj([k |-> JNum(1)])} } \cup
  { JNull }

\* outcomes of the fetch of callMCPServer
FetchOutcomes ==
  {Unreachable} \cup
  {Response(st, b) : st \in {200, 404, 500}, b \in {Unparseable, EmptyObj, JNull, DagPayload(1)}}

Init_Fn ==
  /\ messages = <<>>
  /\ input = <<>>
  /\ loading = FALSE
  /\ dagList = JArr(<<>>)
  /\ dagDetails = JNull
  /\ currentPage = 1
  /\ apiKey = FALSE
  /\ dagData = JArr(<<>>)
  /\ filters = NoFilters
  /\ turns = <<>>

Applied(fn, in, arg, out) == [fn |-> fn, in |-> in, arg |-> arg, out |-> out]
\* the function fn of component in is applied to arg and returns out
Apply(fn, in, arg, out) ==
  /\ turns' = Append(turns, Applied(fn, in, arg, out))
  /\ UNCHANGED <<messages, input, loading, dagList, dagDetails, currentPage, apiKey, dagData, filters>>

\* the arguments extractDags of component in is applied to: a payload at first,
\* then the value it returned
ExtractArgs(in) ==
  IF turns = <<>> THEN ExtractPayloads
  ELSE IF Len(turns) = 1 /\ turns[1].fn = "extractDags" /\ turns[1].in = in
  THEN {turns[1].out}
  ELSE {}

apply_extractDags == \E b \in ExtractArgs("Analytics") : Apply("extractDags", "Analytics", b, extractDags(b))
apply_extractDags_RL == \E b \in ExtractArgs("RL") : Apply("extractDags", "RL", b, extractDags_RL(b))
apply_extractDags_AI == \E b \in ExtractArgs("AI") : Apply("extractDags", "AI", b, extractDags_AI(b))
apply_normalizeDagList ==
  /\ turns = <<>>
  /\ \E raw \in RawLists : Apply("normalizeDagList", "RL", raw, normalizeDagList(raw))
apply_parseMCPResponse ==
  /\ turns = <<>>
  /\ \E b \in ParsePayloads : Apply("parseMCPResponse", "Analytics", b, parseMCPResponse(b))
apply_parseMCPResponse_AI ==
  /\ turns = <<>>
  /\ \E b \in ParsePayloads : Apply("parseMCPResponse", "AI", b, parseMCPResponse_AI(b))
apply_callMCPServer ==
  /\ turns = <<>>
  /\ \E net \in FetchOutcomes : Apply("callMCPServer", "Analytics", net, callMCPServer(net))
apply_callMCPServer_RL ==
  /\ turns = <<>>
  /\ \E net \in FetchOutcomes : Apply("callMCPServer", "RL", net, callMCPServer_RL(net))
apply_callMCPServer_AI ==
  /\ turns = <<>>
  /\ \E net \in FetchOutcomes : Apply("callMCPServer", "AI", net, callMCPServer_AI(net))

Next_Fn ==
  \/ apply_extractDags
  \/ apply_extractDags_RL
  \/ apply_extractDags_AI
  \/ apply_normalizeDagList
  \/ apply_parseMCPResponse
  \/ apply_parseMCPResponse_AI
  \/ apply_callMCPServer
  \/ apply_callMCPServer_RL
  \/ apply_callMCPServer_AI

SpecFn == Init_Fn /\ [][Next_Fn]_vars

(***************************************************************************)
(* The table of the Chatbot of src/Analytics.jsx and its Previous and Next *)
(* buttons, with list and search turns whose payloads fill one page or     *)
(* more.                                                                   *)
(***************************************************************************)
\* const PAGE_SIZE = 15
PAGE_SIZE == 15
\* the longest payload fills MaxPages pages
MaxPages == 3

\* Math.ceil(dagList.length / PAGE_SIZE)
PageCount(list) == (Len(list.a) + PAGE_SIZE - 1) \div PAGE_SIZE

\* a payload of n workflow entries
LongPayload(n) == JObj([output |-> JObj([dags |-> JArr([i \in 1..n |-> Dag(i % 10)])])])
\* the lengths of the payloads: none, one entry, a page and one more, MaxPages
\* pages with one entry on the last
PageLoads == {0, 1, PAGE_SIZE + 1, (MaxPages - 1) * PAGE_SIZE + 1}
NetOutcomes_Pg == {Unreachable} \cup {Response(200, LongPayload(n)) : n \in PageLoads}

\* the texts typed: a list and a search
Inputs_Pg == {Join(<<s_list, s_all, s_dags>>), Join(<<s_search, s_for, id_a>>)}

onChange_Pg ==
  /\ Len(turns) < MaxTurns
  /\ \E v \in Inputs_Pg : v # input /\ input' = v
  /\ UNCHANGED <<messages, loading, dagList, dagDetails, currentPage, apiKey, dagData, filters, turns>>

fetchSettles_Pg ==
  \E t \in 1..Len(turns) : \E k \in 1..Len(turns[t].calls) : \E net \in NetOutcomes_Pg :
    Settle(t, k, net)

\* the Previous button of the table, rendered when dagList.length > 0 and
\* disabled={currentPage === 1}
previousPage ==
  /\ Len(dagList.a) > 0
  /\ ~(currentPage = 1)
  /\ currentPage' = currentPage - 1
  /\ UNCHANGED <<messages, input, loading, dagList, dagDetails, apiKey, dagData, filters, turns>>

\* the Next button, disabled={currentPage >= Math.ceil(dagList.length / PAGE_SIZE)}
nextPage ==
  /\ Len(dagList.a) > 0
  /\ ~(currentPage >= PageCount(dagList))
  /\ currentPage' = currentPage + 1
  /\ UNCHANGED <<messages, input, loading, dagList, dagDetails, apiKey, dagData, filters, turns>>

Next_Pg ==
  \/ onChange_Pg
  \/ sendButton
  \/ handleKeyPress
  \/ fetchSettles_Pg
  \/ previousPage
  \/ nextPage

SpecPg == Init /\ [][Next_Pg]_vars

(***************************************************************************)
(* AnalyticsDashboard of src/Analytics.jsx, lines 15-354: the workflows    *)
(* are loaded once on mount, filtered by the four filters and shown a page *)
(* at a time.  loading and currentPage are its useState of those names.    *)
(***************************************************************************)
\* useState(100), never set again
itemsPerPage == 100

\* str.includes(sub)
includes(str, sub) ==
  \E i \in 1..(Len(str) - Len(sub) + 1) : SubSeq(str, i, i + Len(sub) - 1) = sub
\* arr.includes(v)
Contains(arr, v) == \E i \in 1..Len(arr.a) : arr.a[i] = v

\* the callback of dagData.filter, lines 64-71
Shown(dag, f) ==
  /\ ~(f.searchTerm # <<>> /\
       ~includes(toLowerCase(Get(dag, "dag_id").s), toLowerCase(f.searchTerm)))
  /\ ~(f.statusFilter = "running" /\ Truthy(Get(dag, "is_paused")))
  /\ ~(f.statusFilter = "paused" /\ ~Truthy(Get(dag, "is_paused")))
  /\ ~(f.activeFilter = "active" /\ ~Truthy(Get(dag, "is_active")))
  /\ ~(f.activeFilter = "inactive" /\ Truthy(Get(dag, "is_active")))
  /\ ~(f.tagFilter # <<>> /\
       (~Truthy(Get(dag, "tags")) \/ ~Contains(Get(dag, "tags"), JStr(f.tagFilter))))

filteredData(data, f) ==
  LET Test(dag) == Shown(dag, f)
  IN SelectSeq(data.a, Test)

\* Math.ceil(filteredData.length / itemsPerPage)
totalPages(data, f) == (Len(filteredData(data, f)) + itemsPerPage - 1) \div itemsPerPage

\* arr.slice(from, to) for to >= 0; a negative from counts from the end
slice(arr, from, to) ==
  LET b == IF from < 0 THEN IF Len(arr) + from < 0 THEN 0 ELSE Len(arr) + from ELSE from
      e == IF to > Len(arr) THEN Len(arr) ELSE to
  IN IF b >= e THEN <<>> ELSE SubSeq(arr, b + 1, e)

\* filteredData.slice((currentPage - 1) * itemsPerPage, currentPage * itemsPerPage)
paginatedData(data, f, page) ==
  slice(filteredData(data, f), (page - 1) * itemsPerPage, page * itemsPerPage)

\* the tags of the workflows loaded, the options of the tag filter
allTags(data) ==
  {tg \in {<<"t">>} : \E i \in 1..Len(data.a) :
      Truthy(Get(data.a[i], "tags")) /\ Contains(Get(data.a[i], "tags"), JStr(tg))}

\* a workflow entry of the load
DashDag(i) ==
  JObj([dag_id |-> JStr(IF i = 1 THEN <<"A">> ELSE <<"b">>),
        is_paused |-> JBool(i % 2 = 0),
        is_active |-> JBool(i % 3 # 0),
        tags |-> JArr(IF i = 1 THEN <<JStr(<<"t">>)>> ELSE <<>>)])
\* the answers to the load: none, a body without a list, and lists of no entry,
\* one entry, and a page and one more
DashOutcomes ==
  {Unreachable, Response(200, Unparseable), Response(200, JNull), Response(500, EmptyObj)} \cup
  {Response(200, JObj([output |-> JObj([dags |-> JArr([i \in 1..n |-> DashDag(i)])])])) :
     n \in {0, 1, itemsPerPage + 1}}

\* the state after construction and the effect of mount: fetchDagData awaits
Init_Dash ==
  /\ messages = <<>>
  /\ input = <<>>
  /\ loading = TRUE
  /\ dagList = JArr(<<>>)
  /\ dagDetails = JNull
  /\ currentPage = 1
  /\ apiKey = FALSE
  /\ dagData = JArr(<<>>)
  /\ filters = NoFilters
  /\ turns = <<>>

\* lines 43-50: the fetch of fetchDagData settles; a fetch that rejects, a body
\* that does not parse and a null body end in catch
fetchDagData ==
  /\ loading
  /\ \E net \in DashOutcomes :
       dagData' = IF net = Unreachable \/ net.body = Unparseable \/ Nullish(net.body)
                  THEN dagData
                  ELSE Or(Get(Get(net.body, "output"), "dags"), JArr(<<>>))
  /\ loading' = FALSE
  /\ UNCHANGED <<messages, input, dagList, dagDetails, currentPage, apiKey, filters, turns>>

SetFilter(f) ==
  /\ f # filters
  /\ filters' = f
  /\ UNCHANGED <<messages, input, loading, dagList, dagDetails, currentPage, apiKey,
                 dagData, turns>>

\* the onChange of the filter inputs, lines 176, 185, 197, 209
setSearchTerm == \E v \in {<<>>, <<"a">>} : SetFilter([filters EXCEPT !.searchTerm = v])
setStatusFilter ==
  \E v \in {"all", "running", "paused"} : SetFilter([filters EXCEPT !.statusFilter = v])
setActiveFilter ==
  \E v \in {"all", "active", "inactive"} : SetFilter([filters EXCEPT !.activeFilter = v])
setTagFilter ==
  \E v \in {<<>>} \cup allTags(dagData) : SetFilter([filters EXCEPT !.tagFilter = v])

SetPage(n) ==
  /\ currentPage' = n
  /\ UNCHANGED <<messages, input, loading, dagList, dagDetails, apiKey, dagData, filters,
                 turns>>

\* lines 315-317: setCurrentPage((p) => Math.max(1, p - 1)), disabled={currentPage === 1}
previousPage_Dash ==
  /\ ~(currentPage = 1)
  /\ SetPage(IF currentPage - 1 > 1 THEN currentPage - 1 ELSE 1)

\* lines 324-327: a button for each page up to Math.min(totalPages, 10)
pageNumber ==
  \E n \in 1..(IF totalPages(dagData, filters) < 10 THEN totalPages(dagData, filters) ELSE 10) :
    n # currentPage /\ SetPage(n)

\* lines 342-344: setCurrentPage((p) => Math.min(totalPages, p + 1)),
\* disabled={currentPage === totalPages}
nextPage_Dash ==
  /\ ~(currentPage = totalPages(dagData, filters))
  /\ SetPage(IF totalPages(dagData, filters) < currentPage + 1
             THEN totalPages(dagData, filters) ELSE currentPage + 1)

Next_Dash ==
  \/ fetchDagData
  \/ setSearchTerm
  \/ setStatusFilter
  \/ setActiveFilter
  \/ setTagFilter
  \/ previousPage_Dash
  \/ pageNumber
  \/ nextPage_Dash

SpecDash == Init_Dash /\ [][Next_Dash]_vars

(***************************************************************************)
(* Properties of the Chatbot of src/Analytics.jsx, checked under Spec.     *)
(***************************************************************************)
HasPrefix(str, pre) == Len(str) >= Len(pre) /\ SubSeq(str, 1, Len(pre)) = pre
Ended == {t \in 1..Len(turns) : turns[t].ended}
\* no utterance was submitted while a turn was in flight: every utterance but the
\* last is directly followed by a reply
Sequential ==
  \A i \in 1..(Len(messages) - 1) :
    messages[i].sender = "user" => messages[i + 1].sender = "bot"

\* C1: at most one turn is in flight at any time, whether the second utterance
\* is submitted with the send button or with the Enter key.
C1_AtMostOneTurnInFlight == Cardinality(InFlight) <= 1

\* the rules in the order the claim gives, and the pattern of each
RuleOrder == <<"list", "search", "details", "pause", "unpause", "trigger", "latest">>
Satisfies(k, q) ==
  CASE k = 1 -> listTest(q)
    [] k = 2 -> searchMatch(q) # <<>> \/ searchTest(q)
    [] k = 3 -> detailsMatch(q) # <<>>
    [] k = 4 -> pauseMatch(q) # <<>>
    [] k = 5 -> unpauseMatch(q) # <<>>
    [] k = 6 -> triggerMatch(q) # <<>>
    [] k = 7 -> runMatch(q) # <<>>
SatisfiedOf == [q \in Queries |-> {k \in 1..7 : Satisfies(k, q)}]

\* the calls are those of the rule, told by the command words of their query text
CallsAreOf(rule, calls) ==
  /\ \A k \in 1..Len(calls) : calls[k].to = "MCP_URL"
  /\ CASE rule = "list" -> Len(calls) = 1 /\ calls[1].body = q_list_all_dags
       [] rule = "search" ->
            Len(calls) <= 1 /\ \A k \in 1..Len(calls) : HasPrefix(calls[k].body, q_search_dags(<<>>))
       [] rule = "details" ->
            /\ Len(calls) = 2
            /\ HasPrefix(calls[1].body, q_get_dag_details(<<>>))
            /\ HasPrefix(calls[2].body, q_get_latest_run(<<>>))
       [] rule = "pause" -> Len(calls) = 1 /\ HasPrefix(calls[1].body, q_pause_dag(<<>>))
       [] rule = "unpause" -> Len(calls) = 1 /\ HasPrefix(calls[1].body, q_unpause_dag(<<>>))
       [] rule = "trigger" -> Len(calls) = 1 /\ HasPrefix(calls[1].body, q_trigger_dag(<<>>))
       [] rule = "latest" -> Len(calls) = 1 /\ HasPrefix(calls[1].body, q_get_latest_run(<<>>))

\* C2: the rules are tried in the order list, search, details, pause, unpause,
\* trigger, latest-run: a turn whose utterance satisfies the pattern of one or more
\* rules takes the earliest of them, and every backend call it issues is a call of
\* that rule.
C2_EarliestRuleWins ==
  \A t \in 1..Len(turns) :
    SatisfiedOf[turns[t].query] # {} =>
      LET first == RuleOrder[SetMin(SatisfiedOf[turns[t].query])]
      IN turns[t].rule = first /\ CallsAreOf(first, turns[t].calls)

\* a turn has ended whose utterance satisfies the patterns of the list rule and of
\* the details rule
C2_Witness ==
  \E t \in Ended : {1, 3} \subseteq SatisfiedOf[turns[t].query] /\ turns[t].rule = "list"

\* q is  <word> <id>  for a word of words: the id, <<>> when q has no such form
WordThenId(q, words) ==
  LET W == {w \in words : /\ LitAt(q, 1, w)
                          /\ Len(q) >= Len(w) + 2
                          /\ q[Len(w) + 1] = " "
                          /\ \A i \in (Len(w) + 2)..Len(q) : IsIdChar(q[i])}
  IN IF W = {} THEN <<>>
     ELSE SubSeq(q, Len(CHOOSE w \in W : TRUE) + 2, Len(q))
UnpauseIdOf == [q \in Queries |-> WordThenId(q, {s_unpause, s_resume, s_activate})]

\* C3: a turn for  unpause <id>,  resume <id>  or  activate <id>  issues exactly one
\* backend call, with query text  unpause dag <id>.
C3_UnpauseFormIssuesUnpause ==
  \A t \in 1..Len(turns) :
    UnpauseIdOf[turns[t].query] # <<>> =>
      /\ Len(turns[t].calls) = 1
      /\ turns[t].calls[1].body = q_unpause_dag(UnpauseIdOf[turns[t].query])

\* q is  (latest|last|recent) run (for|of) <id>: the id, <<>> when q has no such form
LatestRunId(q) ==
  LET heads == {Join(<<w, s_run, f>>) : w \in {s_latest, s_last, s_recent}, f \in {s_for, s_of}}
  IN WordThenId(q, heads)
LatestRunIdOf == [q \in Queries |-> LatestRunId(q)]

\* C4: a turn for  latest run for <id>,  last run of <id>  or  recent run for <id>
\* issues exactly one backend call, with query text  get latest run <id>.
C4_LatestRunFormIssuesLatestRun ==
  \A t \in 1..Len(turns) :
    LatestRunIdOf[turns[t].query] # <<>> =>
      /\ Len(turns[t].calls) = 1
      /\ turns[t].calls[1].body = q_get_latest_run(LatestRunIdOf[turns[t].query])

\* the identifier the pattern of the rule captures from the utterance
CapturedOf == [q \in Queries |->
                 [pause |-> pauseMatch(q), unpause |-> unpauseMatch(q), trigger |-> triggerMatch(q)]]

\* C5: a turn resolved to pause (unpause, trigger) issues exactly one backend call,
\* whose query text is  pause dag <id>  (unpause dag <id>, trigger dag <id>)  with
\* the identifier captured from the utterance; when the call has failed the turn has
\* ended with that one call and issues no other.
C5_OneCallWithCapturedId ==
  \A t \in 1..Len(turns) :
    turns[t].rule \in {"pause", "unpause", "trigger"} =>
      /\ Len(turns[t].calls) = 1
      /\ turns[t].calls[1].to = "MCP_URL"
      /\ turns[t].calls[1].body =
           Join(<<CASE turns[t].rule = "pause" -> s_pause
                    [] turns[t].rule = "unpause" -> s_unpause
                    [] turns[t].rule = "trigger" -> s_trigger,
                  s_dag, CapturedOf[turns[t].query][turns[t].rule]>>)
      /\ turns[t].ended <=> turns[t].calls[1].result # Pending

\* an unpause turn has ended whose one call failed
C5_Witness ==
  \E t \in Ended :
    /\ turns[t].rule = "unpause"
    /\ Len(turns[t].calls) = 1
    /\ ~turns[t].calls[1].result.ok

\* C6: in a details turn for id X whose details call succeeds (with a payload that
\* carries no dag_id of its own) and whose latest-run call fails, a detail record
\* for X is set, it has no latest-run field, and the success reply for X is shown.
C6_RunFailureOmitsLatestRun ==
  \A t \in Ended :
    (/\ turns[t].rule = "details"
     /\ turns[t].calls[1].result.ok
     /\ Get(turns[t].calls[1].result.body, "dag_id") = JUndef
     /\ ~turns[t].calls[2].result.ok) =>
      /\ turns[t].setDetails # Keep
      /\ Get(turns[t].setDetails, "dag_id") = JStr(turns[t].arg)
      /\ Get(turns[t].setDetails, "latest_run") = JUndef
      /\ turns[t].replies = <<Text(<<"Details for ${dagId} shown below.", turns[t].arg>>)>>

\* C7: a details turn issues both backend calls before it awaits either; it appends
\* its reply and sets its record only once both calls have returned, in whichever
\* order they return; when the details call has failed it reports failure and sets
\* no detail record, whatever the latest-run call returned.
C7_DetailsJoin ==
  \A t \in 1..Len(turns) :
    turns[t].rule = "details" =>
      /\ Len(turns[t].calls) = 2
      /\ turns[t].calls[1].body = q_get_dag_details(turns[t].arg)
      /\ turns[t].calls[2].body = q_get_latest_run(turns[t].arg)
      /\ turns[t].ended <=> (\A k \in 1..2 : turns[t].calls[k].result # Pending)
      /\ ~turns[t].ended => turns[t].replies = <<>> /\ turns[t].setDetails = Keep
      /\ (turns[t].ended /\ ~turns[t].calls[1].result.ok) =>
           /\ turns[t].replies = <<Text(<<"DAG ${dagId} not found.", turns[t].arg>>)>>
           /\ turns[t].setDetails = Keep

\* a details turn has ended whose details call failed and whose latest-run call
\* succeeded
C7_Witness ==
  \E t \in Ended :
    /\ turns[t].rule = "details"
    /\ ~turns[t].calls[1].result.ok
    /\ turns[t].calls[2].result.ok

\* C8: when turns follow one another and the call of a list turn succeeds with a
\* payload (an object) that normalizes to zero entities, the reply is the no-results
\* text and the entity list is empty after the turn, whatever earlier turns had put
\* in it.
C8_EmptyListClearsEntities ==
  \A t \in Ended :
    (/\ Sequential
     /\ turns[t].rule = "list"
     /\ turns[t].calls[1].result.ok
     /\ turns[t].calls[1].result.body.t = "obj"
     /\ ~LengthPositive(extractDags(turns[t].calls[1].result.body))) =>
      /\ turns[t].replies = <<Text(<<"No DAGs found.">>)>>
      /\ turns[t].listAfter = JArr(<<>>)

\* C10: every turn started by a non-blank utterance has appended at least one bot
\* reply by the time it ends.
C10_EveryTurnReplies == \A t \in Ended : Len(turns[t].replies) >= 1

(***************************************************************************)
(* Properties of the Chatbot of src/Chatbot2.jsx, lines 9-225, checked     *)
(* under SpecB.                                                            *)
(***************************************************************************)
\* list turns that have ended with a 2xx answer (an object) normalizing to zero
\* entities, and list turns that have ended with a failed call
EmptyLists_RL ==
  {t \in Ended : /\ turns[t].rule = "list"
                 /\ turns[t].calls[1].result.ok
                 /\ turns[t].calls[1].result.body.t = "obj"
                 /\ Len(extractDags_RL(turns[t].calls[1].result.body).a) = 0}
FailedLists_RL ==
  {t \in Ended : turns[t].rule = "list" /\ ~turns[t].calls[1].result.ok}

\* C9: the reply of a list turn whose call succeeded with zero entities is a
\* different text from the reply of a list turn whose call failed (unreachable or
\* non-2xx).
C9_EmptyReplyDiffersFromFailure ==
  \A t \in EmptyLists_RL : \A u \in FailedLists_RL : turns[t].replies # turns[u].replies

(***************************************************************************)
(* Properties of the AI-driven Chatbot of src/Chatbot2.jsx, checked under  *)
(* SpecAI and, for progress, under LiveAI.                                 *)
(***************************************************************************)
IsUser(m) == m.sender = "user"
\* the text typed for turn t, as it stands in the message list
UserText(t) == SelectSeq(messages, IsUser)[t].text
AllSpace(str, S) == \A i \in S : IsSpace(str[i])
\* q is raw without the white space around it
IsTrimOf(q, raw) ==
  IF AllSpace(raw, 1..Len(raw)) THEN q = <<>>
  ELSE /\ q # <<>>
       /\ ~IsSpace(q[1]) /\ ~IsSpace(q[Len(q)])
       /\ \E i \in 1..Len(raw) :
            /\ i + Len(q) - 1 <= Len(raw)
            /\ SubSeq(raw, i, i + Len(q) - 1) = q
            /\ AllSpace(raw, (1..(i - 1)) \cup ((i + Len(q))..Len(raw)))

\* C11: with no language-model credential, a turn for any non-blank utterance
\* appends the degraded-mode notice, makes no language-model call, and issues
\* exactly one backend call, whose query is the utterance without the white space
\* around it and otherwise unchanged.
C11_DegradedModeForwardsRaw ==
  ~apiKey =>
    \A t \in 1..Len(turns) :
      /\ turns[t].replies[1] = NoKeyNotice
      /\ Len(turns[t].calls) = 1
      /\ turns[t].calls[1].to = "MCP_URL"
      /\ IsTrimOf(turns[t].calls[1].body, UserText(t))

\* without a credential a turn has ended for an utterance typed with capitals and
\* with spaces around it
C11_Witness ==
  /\ ~apiKey
  /\ \E t \in Ended : UserText(t) # turns[t].query /\ toLowerCase(UserText(t)) # UserText(t)

\* the seven textual command forms
CommandWords ==
  { Join(<<s_search, s_dags>>), Join(<<s_get, s_dag, s_details>>), Join(<<s_get, s_latest, s_run>>),
    Join(<<s_pause, s_dag>>), Join(<<s_unpause, s_dag>>), Join(<<s_trigger, s_dag>>) }
Supported(cmd) == cmd = Join(<<s_list, s_all, s_dags>>) \/ WordThenId(cmd, CommandWords) # <<>>

\* C12: with a credential, nothing but one of the seven supported command forms is
\* ever sent to the backend: every backend call of a turn carries a supported form.
C12_OnlySupportedFormsSent ==
  apiKey =>
    \A t \in 1..Len(turns) : \A k \in 1..Len(turns[t].calls) :
      turns[t].calls[k].to = "MCP_URL" => Supported(turns[t].calls[k].body)

\* the text of c before its first newline
BeforeNewline(c) ==
  IF \E i \in 1..Len(c) : c[i] = NL
  THEN SubSeq(c, 1, (CHOOSE i \in 1..Len(c) : c[i] = NL /\ \A j \in 1..(i - 1) : c[j] # NL) - 1)
  ELSE c
\* the turns of the model path that have sent a command to the backend
Commanded == {t \in 1..Len(turns) : turns[t].rule = "ai" /\ Len(turns[t].calls) = 2}

\* C13: the command shown and sent to the backend is the text of the language
\* model's reply before its first newline, without the white space around it.
C13_CommandIsFirstLine ==
  \A t \in Commanded :
    LET content == aiContent(turns[t].calls[1].result.body).s
        command == turns[t].calls[2].body
    IN /\ IsTrimOf(command, BeforeNewline(content))
       /\ turns[t].replies[2] = Text(<<"Interpreted as: ${aiCommand}", command>>)

\* a command has been sent that came from a reply with more text after its first
\* newline
C13_Witness ==
  \E t \in Commanded :
    LET content == aiContent(turns[t].calls[1].result.body).s
    IN Len(BeforeNewline(content)) + 1 < Len(content)

\* the language-model step gave no command: the request failed, the body did not
\* parse, it held no content or content that is no text, or its first line is blank
NoCommand(res) ==
  \/ res = Rejected
  \/ res.body = Unparseable
  \/ ~Truthy(aiContent(res.body))
  \/ aiContent(res.body).t # "str"
  \/ AllSpace(BeforeNewline(aiContent(res.body).s), 1..Len(BeforeNewline(aiContent(res.body).s)))
\* the turns of the model path whose language-model call has been answered
Answered == {t \in 1..Len(turns) :
               turns[t].rule = "ai" /\ turns[t].calls[1].result \notin {Pending, Hung}}

\* C14: when the language-model step yields no command, the turn appends the
\* request-to-rephrase reply and ends without any backend call.
C14_NoCommandEndsTurn ==
  \A t \in Answered :
    NoCommand(turns[t].calls[1].result) =>
      /\ turns[t].ended
      /\ Len(turns[t].calls) = 1
      /\ turns[t].replies = <<Interpreting, RephraseReply>>

\* a turn has ended on a reply whose first line is blank and whose second is a command
C14_Witness ==
  \E t \in Answered :
    /\ turns[t].ended
    /\ turns[t].calls[1].result # Rejected
    /\ turns[t].calls[1].result.body = Choice(JStr(ai_blank_first_line))

\* C19: a turn always ends, also when the backend never answers: whenever loading
\* is set, it is eventually cleared again (checked under LiveAI, where a fetch
\* that can settle does settle).
C19_TurnEventuallyEnds == loading ~> ~loading

(***************************************************************************)
(* Properties of the helper functions, checked under SpecFn.               *)
(***************************************************************************)
\* the applications of fn made so far
AppsOf(fn) == {i \in 1..Len(turns) : turns[i].fn = fn}
NonEmptySeq(v) == IsArray(v) /\ Len(v.a) > 0
\* the places of payload p, in the order output.dags, dags, data.dags, data,
\* results, p itself
Places(p) ==
  <<Get(Get(p, "output"), "dags"), Get(p, "dags"), Get(Get(p, "data"), "dags"),
    Get(p, "data"), Get(p, "results"), p>>
FirstNonEmpty(p) ==
  IF \E k \in 1..6 : NonEmptySeq(Places(p)[k])
  THEN Places(p)[SetMin({k \in 1..6 : NonEmptySeq(Places(p)[k])})]
  ELSE JArr(<<>>)

\* C15: extractDags returns the first of output.dags, dags, data.dags, data,
\* results and the payload itself that is a non-empty sequence, and the empty
\* sequence when none is (payloads whose output.dags is absent or a sequence).
C15_FirstNonEmptyPlace ==
  \A i \in AppsOf("extractDags") :
    LET held == Get(Get(turns[i].arg, "output"), "dags")
    IN (held = JUndef \/ IsArray(held)) => turns[i].out = FirstNonEmpty(turns[i].arg)

\* C16: extractDags returns a sequence for every JSON value, and applied to the
\* sequence it returned it returns that same sequence.
C16_TotalAndIdempotent ==
  \A i \in AppsOf("extractDags") :
    /\ IsArray(turns[i].out)
    /\ i = 2 => turns[i].out = turns[i].arg

\* C17: normalizeDagList yields one entry per raw entry, in the same order: a text
\* stays as it is and an object with a dag_id gives that dag_id; no raw entry is
\* dropped.
C17_OneEntryPerRawEntry ==
  \A i \in AppsOf("normalizeDagList") :
    /\ Len(turns[i].out.a) = Len(turns[i].arg.a)
    /\ \A k \in 1..Len(turns[i].arg.a) :
         LET d == turns[i].arg.a[k]
         IN /\ d.t = "str" => turns[i].out.a[k] = d
            /\ Truthy(Get(d, "dag_id")) => turns[i].out.a[k] = Get(d, "dag_id")

\* C18: for a payload that has a data block and a top-level message, and no
\* success flag, error or output, parseMCPResponse returns the data block
\* (pretty-printed), which comes before the top-level message in the order.
C18_DataBeforeMessage ==
  \A i \in AppsOf("parseMCPResponse") :
    LET b == turns[i].arg
    IN (/\ Truthy(Get(b, "data")) /\ Truthy(Get(b, "message"))
        /\ Get(b, "success") = JUndef /\ Get(b, "error") = JUndef /\ Get(b, "output") = JUndef)
       => turns[i].out = StringifyPretty(Get(b, "data"))

\* C20: for a response whose body does not parse, callMCPServer returns the ok flag
\* and the status of the response, with an empty object as body.
C20_UnparseableKeepsStatus ==
  \A i \in AppsOf("callMCPServer") :
    LET net == turns[i].arg
    IN (net # Unreachable /\ net.body = Unparseable)
       => turns[i].out = Result(net.status >= 200 /\ net.status <= 299, net.status, EmptyObj)

(***************************************************************************)
(* Properties of the rerun rule of src/Chatbot2.jsx, checked under SpecB.  *)
(***************************************************************************)
\* the identifier typed after the first  rerun  that one follows, as typed; <<>>
\* when the utterance has no  rerun <id>
RerunTyped(q) ==
  LET P == {p \in 1..Len(q) : /\ LitAt(q, p, s_rerun)
                              /\ (p = 1 \/ ~IsWordChar(q[p - 1]))
                              /\ p + 5 <= Len(q)
                              /\ IsSpace(q[p + 5])
                              /\ SkipSpaces(q, p + 5) <= Len(q)
                              /\ IsIdChar(q[SkipSpaces(q, p + 5)])}
  IN IF P = {} THEN <<>>
     ELSE LET b == SkipSpaces(q, SetMin(P) + 5)
          IN SubSeq(q, b, SkipId(q, b) - 1)
RerunTypedOf == [q \in Queries_RL |-> RerunTyped(q)]
RerunSucceeded(t) ==
  /\ Len(turns[t].replies) = 1
  /\ turns[t].replies[1].parts[1] =
       "DAG ${dagId} has been triggered successfully. Run ID: ${runId || <manual>}"

C26_RerunIdAsTyped ==
  \A t \in 1..Len(turns) :
    turns[t].rule = "rerun" =>
      /\ turns[t].calls[1].body = JObj([dag_id |-> JStr(RerunTypedOf[turns[t].query])])
      /\ \A i \in 1..Len(turns[t].replies) :
           Len(turns[t].replies[i].parts) >= 2 =>
             turns[t].replies[i].parts[2] = RerunTypedOf[turns[t].query]

(***************************************************************************)
(* Properties of the default path and of the list rule of src/Chatbot2.jsx *)
(* (lines 9-225), checked under SpecB.                                     *)
(***************************************************************************)
\* the call of turn t to the query endpoint failed at the network level
NetworkFailure(t) ==
  /\ turns[t].calls[1].result # Pending
  /\ ~turns[t].calls[1].result.ok
  /\ turns[t].calls[1].result.status = 0

\* C23: a turn whose utterance matches no rule issues exactly one backend call,
\* with the utterance without the white space around it as its query; when that
\* call has failed at the network level the turn makes no language-model call and
\* its reply is neither an answer of the model nor the missing-key notice.
C23_FreeformReportsNetworkFailure ==
  \A t \in 1..Len(turns) :
    turns[t].rule = "default" =>
      /\ Cardinality({k \in 1..Len(turns[t].calls) : turns[t].calls[k].to = "MCP_URL"}) = 1
      /\ turns[t].calls[1].to = "MCP_URL"
      /\ IsTrimOf(turns[t].calls[1].body, UserText(t))
      /\ NetworkFailure(t) =>
           /\ Len(turns[t].calls) = 1
           /\ \A i \in 1..Len(turns[t].replies) :
                turns[t].replies[i].parts[1] # "Missing Groq API key. Add VITE_GROQ_API_KEY to .env"

\* the list turns that have ended with the reply  Found N DAGs
FoundTurns_RL ==
  {t \in Ended : /\ turns[t].rule = "list"
                 /\ Len(turns[t].replies) = 1
                 /\ turns[t].replies[1].parts[1] =
                      "Found ${normalized.length} DAGs. Showing in table below."}

\* C27: whenever a list turn has replied  Found N DAGs,  N is at least 1, N is
\* the number of entries of the entity sequence of the payload, and the entity list
\* stored for the table has exactly N entries.
C27_FoundCountsEntries ==
  \A t \in FoundTurns_RL :
    LET N == turns[t].replies[1].parts[2]
    IN /\ N >= 1
       /\ N = Len(extractDags_RL(turns[t].calls[1].result.body).a)
       /\ turns[t].setList # Keep
       /\ Len(turns[t].setList.a) = N

(***************************************************************************)
(* Further properties of the Chatbot of src/Analytics.jsx, checked under   *)
(* Spec.                                                                   *)
(***************************************************************************)
\* the term of a search: the capture of  search.*(for|dags?)\s+<id>  when that
\* matches, else the text after the word search, trimmed
TermOf == [q \in Queries |-> IF searchMatch(q) # <<>> THEN searchMatch(q) ELSE searchSplit(q)]
HasSearchWord == [q \in Queries |-> searchTest(q) /\ ~listTest(q)]

\* C22: a turn for an utterance with the word search (and not of the list form)
\* issues one call  search dags <term>  when the term is not empty; when the term
\* is empty it issues no search call and goes on as an unmatched utterance: one
\* backend call with the utterance as its query.
C22_EmptySearchTermFallsBack ==
  \A t \in 1..Len(turns) :
    HasSearchWord[turns[t].query] =>
      /\ Len(turns[t].calls) = 1
      /\ turns[t].calls[1].body =
           IF TermOf[turns[t].query] # <<>>
           THEN q_search_dags(TermOf[turns[t].query])
           ELSE turns[t].query

\* C24: the in-progress flag is set in every state in which a turn is in flight.
C24_LoadingWhileInFlight == InFlight # {} => loading

\* C25: from a state with a blank input no step starts a turn or appends a user
\* message, and a step of sendMessage (the Enter key) leaves every variable as it
\* was: messages, input, in-progress flag, entity list, detail record, page, and
\* the calls issued.
C25_BlankInputChangesNothing ==
  [][trim(input) = <<>> =>
       /\ Len(turns') = Len(turns)
       /\ SelectSeq(messages', IsUser) = SelectSeq(messages, IsUser)
       /\ handleKeyPress => UNCHANGED vars]_vars

\* the input holds white space only, after a turn has ended, and no utterance in
\* the message list is blank
C25_Witness ==
  /\ input # <<>>
  /\ trim(input) = <<>>
  /\ Ended # {}
  /\ \A i \in 1..Len(messages) : IsUser(messages[i]) => trim(messages[i].text) # <<>>

\* C28: the detail record set by a details turn for id X has dag_id X, whatever
\* the payload of the backend holds.
C28_DetailRecordKeepsId ==
  \A t \in 1..Len(turns) :
    (turns[t].rule = "details" /\ turns[t].setDetails # Keep) =>
      Get(turns[t].setDetails, "dag_id") = JStr(turns[t].arg)

(***************************************************************************)
(* Properties of the table of the Chatbot, checked under SpecPg.           *)
(***************************************************************************)
\* C30: after every step, when the entity list is not empty, currentPage is at
\* least 1 and at most ceil(length / PAGE_SIZE); and a step in which a turn
\* replaces the entity list leaves currentPage at 1.
C30_PageWithinList ==
  [][/\ Len(dagList'.a) > 0 => (1 <= currentPage' /\ currentPage' <= PageCount(dagList'))
     /\ (\E t \in 1..Len(turns) : turns[t].setList = Keep /\ turns'[t].setList # Keep)
          => (currentPage' = 1 /\ \E t \in 1..Len(turns) : dagList' = turns'[t].setList)]_vars

\* two turns have each replaced the entity list, the later one by a list of two
\* pages, and the table stands on the second page
C30_Witness ==
  /\ Len(turns) = 2
  /\ turns[1].ended /\ turns[2].ended
  /\ turns[1].setList # Keep /\ turns[2].setList # Keep
  /\ Len(turns[2].setList.a) = PAGE_SIZE + 1
  /\ dagList = turns[2].setList
  /\ currentPage = 2

(***************************************************************************)
(* Properties of AnalyticsDashboard, checked under SpecDash.               *)
(***************************************************************************)
\* C29: after any data load, page clicks and filter changes, currentPage is at
\* least 1 and at most max(1, totalPages) of the filtered data, and a filtered
\* list that is not empty never shows an empty page.
C29_DashboardPageInRange ==
  /\ currentPage >= 1
  /\ currentPage <= (IF totalPages(dagData, filters) > 1 THEN totalPages(dagData, filters) ELSE 1)
  /\ Len(filteredData(dagData, filters)) > 0 => Len(paginatedData(dagData, filters, currentPage)) > 0

====
